---- MODULE Spec2Model ----
(***************************************************************************)
(* The unsafe doubly-linked deque of src/src/sixth.rs (LinkedList, Node,   *)
(* CursorMut) as a state machine over an explicit heap.                    *)
(*                                                                         *)
(* A Link (Option<NonNull<Node<T>>>) is a node address or NULL (the null   *)
(* pointer niche of Option<NonNull<_>>).  Every allocation is a fresh      *)
(* address; a freed address stays freed, so a dereference of a freed node  *)
(* is always seen.  Such a dereference, and a second Box::from_raw of the  *)
(* same node, is undefined behaviour: the run is cut there with ub set and *)
(* nothing is assumed about what follows.                                  *)
(*                                                                         *)
(* usize values are kept as the signed representative of their value       *)
(* modulo 2^64 (-1 stands for 2^64 - 1): with overflow checks (debug       *)
(* build) a subtraction below zero panics, without them (release build) it *)
(* wraps.  Both builds are modelled; overflow_checks is fixed by Init.     *)
(*                                                                         *)
(* The singly-linked queue of src/src/fifth.rs (head, tail and its own     *)
(* heap) and the Send and Sync impls of sixth.rs (an element type, and the *)
(* threads that own or borrow the list and its iterators) are modelled     *)
(* next to it, each with its own specification.                            *)
(***************************************************************************)
EXTENDS Integers, Sequences, FiniteSets, TLC

MaxNodes == 3
MaxElem == 2
MaxDamaged == 3
MaxInput == 2
MaxThreads == 3

Nodes == 1..MaxNodes
Elems == 1..MaxElem
Lists == {"a", "b"}

\* The input sequences of extend and from_iter.
Inputs == UNION {[1..k -> Elems] : k \in 0..MaxInput}

\* Threads of the program; thread 1 is the one that builds the list.
Threads == 1..MaxThreads
NoThread == 0
Main == 1

\* The types the Send and Sync impls of sixth.rs are written for.
Handles == {"LinkedList", "Iter", "IterMut"}

\* An element type T, by the two marker traits it has: i32 has both, Cell<i32>
\* is Send only, MutexGuard<i32> is Sync only, Rc<i32> has neither.
ElemTypes == [send : BOOLEAN, sync : BOOLEAN]
I32 == [send |-> TRUE, sync |-> TRUE]

\* f64::NAN among the elements of a list of floats: not equal to and not
\* ordered with any element, itself included.
NaN == -1
Floats == Elems \cup {NaN}
NULL == 0

None == << >>
Some(v) == << v >>

VARIABLES node, status, list, alive, cursor, iter, ub, panicked, ret,
          damaged, overflow_checks,
          head, tail, fifth_node, fifth_status,
          elem_type, owner, borrowers

\* The queue of fifth.rs: its two fields and the nodes it boxed.
fifthVars == << head, tail, fifth_node, fifth_status >>

\* The element type T of a LinkedList<T>, and the threads that hold the list
\* and its iterators by value (owner) or by shared reference (borrowers).
threadVars == << elem_type, owner, borrowers >>

vars == << node, status, list, alive, cursor, iter, ub, panicked, ret,
           damaged, overflow_checks, fifthVars, threadVars >>

----------------------------------------------------------------------------
(* Values *)

Garbage == [front |-> NULL, back |-> NULL, elem |-> 0]

\* LinkedList::new
EmptyList == [front |-> NULL, back |-> NULL, len |-> 0]

NoCursor == [live |-> FALSE, list |-> "a", cur |-> NULL, index |-> None]

\* The iterator in use, if any: an Iter or IterMut borrowing list `list` with
\* its own front, back and len, or an IntoIter that owns list `list`.
IterKinds == {"Iter", "IterMut"}
NoIter == [live |-> FALSE, kind |-> "Iter", list |-> "a",
           front |-> NULL, back |-> NULL, len |-> 0]

\* What the last call returned: (), Option<T>, a LinkedList or a CursorMut.
RetUnit == [tag |-> "unit", val |-> 0]
RetNone == [tag |-> "none", val |-> 0]
RetSome(e) == [tag |-> "some", val |-> e]
RetList == [tag |-> "list", val |-> 0]
RetCursor == [tag |-> "cursor", val |-> 0]
\* The () of splice_before and splice_after, told apart from the () of the
\* other calls.
RetSpliced == [tag |-> "spliced", val |-> 0]
\* An iterator, the (usize, Option<usize>) of size_hint and the usize of len.
RetIter == [tag |-> "iter", val |-> 0]
RetSizeHint(lo, hi) == [tag |-> "size_hint", val |-> << lo, hi >>]
RetLen(n) == [tag |-> "len", val |-> n]
\* The bool of ==, !=, <, <=, > and >= (op names the operator), the
\* Option<Ordering> of partial_cmp, the Ordering of cmp, and what hash wrote
\* to the Hasher.
RetBool(op, b) == [tag |-> op, val |-> b]
RetPartialCmp(o) == [tag |-> "partial_cmp", val |-> o]
RetCmp(o) == [tag |-> "cmp", val |-> o]
RetHash(h) == [tag |-> "hash", val |-> h]

Other(l) == IF l = "a" THEN "b" ELSE "a"

\* The whole program state as one value, so that methods compose.
World ==
  [node |-> node, status |-> status, list |-> list, alive |-> alive,
   cursor |-> cursor, iter |-> iter, ub |-> ub, panicked |-> FALSE,
   ret |-> RetUnit]

Live(w, n) == w.status[n] = "live"

UB(w, kind) == [w EXCEPT !.ub = kind]

Panic(w) == [w EXCEPT !.panicked = TRUE]

\* Box::new: a fresh address (the lowest never used; addresses that were
\* never handed out are interchangeable).
NewNode(w) == CHOOSE n \in Nodes :
                 /\ w.status[n] = "unalloc"
                 /\ \A k \in Nodes : k < n => w.status[k] # "unalloc"

CanAlloc == \E n \in Nodes : status[n] = "unalloc"

\* The Box of node n goes out of scope.
Free(w, n) == [w EXCEPT !.status[n] = "freed", !.node[n] = Garbage]

\* (*n.as_ptr()).front = v and (*n.as_ptr()).back = v
WrFront(w, n, v) ==
  IF w.ub # "none" THEN w
  ELSE IF ~Live(w, n) THEN UB(w, "use_after_free")
  ELSE [w EXCEPT !.node[n].front = v]

WrBack(w, n, v) ==
  IF w.ub # "none" THEN w
  ELSE IF ~Live(w, n) THEN UB(w, "use_after_free")
  ELSE [w EXCEPT !.node[n].back = v]

----------------------------------------------------------------------------
(* Observations of the heap: the data model of spec.md section 3 *)

Reverse(s) == [i \in 1..Len(s) |-> s[Len(s) + 1 - i]]

NoDup(s) == \A i, j \in 1..Len(s) : i # j => s[i] # s[j]

Range(s) == {s[i] : i \in 1..Len(s)}

\* The nodes met in heap w following next links (Node.back) from n; the
\* walk stops after a node that is not live and after more steps than there
\* are nodes.
RECURSIVE WalkNext(_, _, _)
WalkNext(w, n, fuel) ==
  IF n = NULL \/ fuel = 0 THEN << >>
  ELSE IF w.status[n] # "live" THEN << n >>
  ELSE << n >> \o WalkNext(w, w.node[n].back, fuel - 1)

\* The same following prev links (Node.front).
RECURSIVE WalkPrev(_, _, _)
WalkPrev(w, n, fuel) ==
  IF n = NULL \/ fuel = 0 THEN << >>
  ELSE IF w.status[n] # "live" THEN << n >>
  ELSE << n >> \o WalkPrev(w, w.node[n].front, fuel - 1)

\* The chain f walked from front is list l: live nodes, none twice, len of
\* them, ending at back, each node's prev link the node before it.
WellFormedChain(w, l, f) ==
  /\ Len(f) = w.list[l].len
  /\ NoDup(f)
  /\ \A i \in 1..Len(f) :
       /\ w.status[f[i]] = "live"
       /\ w.node[f[i]].front = IF i = 1 THEN NULL ELSE f[i - 1]
  /\ w.list[l].back = IF Len(f) = 0 THEN NULL ELSE f[Len(f)]

CursorOk(w, f) ==
  IF w.cursor.cur = NULL THEN w.cursor.index = None
  ELSE /\ w.cursor.index # None
       /\ w.cursor.index[1] \in 0..(Len(f) - 1)
       /\ f[w.cursor.index[1] + 1] = w.cursor.cur

\* The invariants of the data model hold in w: every live list is a
\* well-formed chain, the two lists share no node, the cursor is the ghost or
\* sits on the node of its list that its index names.
SoundIn(w) ==
  LET fa == IF w.alive["a"]
            THEN WalkNext(w, w.list["a"].front, MaxNodes + 1) ELSE << >>
      fb == IF w.alive["b"]
            THEN WalkNext(w, w.list["b"].front, MaxNodes + 1) ELSE << >>
  IN /\ w.alive["a"] => WellFormedChain(w, "a", fa)
     /\ w.alive["b"] => WellFormedChain(w, "b", fb)
     /\ Range(fa) \cap Range(fb) = {}
     /\ w.cursor.live => CursorOk(w, IF w.cursor.list = "a" THEN fa ELSE fb)

----------------------------------------------------------------------------
(* LinkedList *)

PushFront(w, l, e) ==
  LET new == NewNode(w)
      w1 == [w EXCEPT !.status[new] = "live",
                      !.node[new] = [front |-> NULL, back |-> NULL, elem |-> e]]
      old == w.list[l].front
      w2 == IF old # NULL
            THEN WrBack(WrFront(w1, old, new), new, old)
            ELSE [w1 EXCEPT !.list[l].back = new]
  IN IF w2.ub # "none" THEN w2
     ELSE [w2 EXCEPT !.list[l].front = new, !.list[l].len = @ + 1]

\* PushBack without "self.front = Some(new)" for the empty list.
PushBack_NoFront(w, l, e) ==
  LET new == NewNode(w)
      w1 == [w EXCEPT !.status[new] = "live",
                      !.node[new] = [front |-> NULL, back |-> NULL, elem |-> e]]
      old == w.list[l].back
      w2 == IF old # NULL
            THEN WrFront(WrBack(w1, old, new), new, old)
            ELSE w1
  IN IF w2.ub # "none" THEN w2
     ELSE [w2 EXCEPT !.list[l].back = new, !.list[l].len = @ + 1]

PushBack(w, l, e) ==
  LET new == NewNode(w)
      w1 == [w EXCEPT !.status[new] = "live",
                      !.node[new] = [front |-> NULL, back |-> NULL, elem |-> e]]
      old == w.list[l].back
      w2 == IF old # NULL
            THEN WrFront(WrBack(w1, old, new), new, old)
            ELSE [w1 EXCEPT !.list[l].front = new]
  IN IF w2.ub # "none" THEN w2
     ELSE [w2 EXCEPT !.list[l].back = new, !.list[l].len = @ + 1]

PopFront(w, l) ==
  LET n == w.list[l].front IN
  IF n = NULL THEN [w EXCEPT !.ret = RetNone]
  ELSE IF ~Live(w, n) THEN UB(w, "double_free")
  ELSE
    LET result == w.node[n].elem
        new == w.node[n].back
        w1 == [w EXCEPT !.list[l].front = new]
        w2 == IF new # NULL
              THEN WrFront(w1, new, NULL)
              ELSE [w1 EXCEPT !.list[l].back = NULL]
    IN IF w2.ub # "none" THEN w2
       ELSE IF overflow_checks /\ w2.list[l].len = 0
            THEN Panic(Free(w2, n))
            ELSE [Free(w2, n) EXCEPT !.list[l].len = @ - 1, !.ret = RetSome(result)]

\* PopBack without "self.front = None" when the last node goes.
PopBack_KeepsFront(w, l) ==
  LET n == w.list[l].back IN
  IF n = NULL THEN [w EXCEPT !.ret = RetNone]
  ELSE IF ~Live(w, n) THEN UB(w, "double_free")
  ELSE
    LET result == w.node[n].elem
        new == w.node[n].front
        w1 == [w EXCEPT !.list[l].back = new]
        w2 == IF new # NULL THEN WrBack(w1, new, NULL) ELSE w1
    IN IF w2.ub # "none" THEN w2
       ELSE IF overflow_checks /\ w2.list[l].len = 0
            THEN Panic(Free(w2, n))
            ELSE [Free(w2, n) EXCEPT !.list[l].len = @ - 1, !.ret = RetSome(result)]

PopBack(w, l) ==
  LET n == w.list[l].back IN
  IF n = NULL THEN [w EXCEPT !.ret = RetNone]
  ELSE IF ~Live(w, n) THEN UB(w, "double_free")
  ELSE
    LET result == w.node[n].elem
        new == w.node[n].front
        w1 == [w EXCEPT !.list[l].back = new]
        w2 == IF new # NULL
              THEN WrBack(w1, new, NULL)
              ELSE [w1 EXCEPT !.list[l].front = NULL]
    IN IF w2.ub # "none" THEN w2
       ELSE IF overflow_checks /\ w2.list[l].len = 0
            THEN Panic(Free(w2, n))
            ELSE [Free(w2, n) EXCEPT !.list[l].len = @ - 1, !.ret = RetSome(result)]

\* LinkedList::front and LinkedList::back
Front(w, l) ==
  LET n == w.list[l].front IN
  IF n = NULL THEN [w EXCEPT !.ret = RetNone]
  ELSE IF ~Live(w, n) THEN UB(w, "use_after_free")
  ELSE [w EXCEPT !.ret = RetSome(w.node[n].elem)]

\* back that reads through front.
Back_OfFront(w, l) ==
  LET n == w.list[l].front IN
  IF n = NULL THEN [w EXCEPT !.ret = RetNone]
  ELSE IF ~Live(w, n) THEN UB(w, "use_after_free")
  ELSE [w EXCEPT !.ret = RetSome(w.node[n].elem)]

Back(w, l) ==
  LET n == w.list[l].back IN
  IF n = NULL THEN [w EXCEPT !.ret = RetNone]
  ELSE IF ~Live(w, n) THEN UB(w, "use_after_free")
  ELSE [w EXCEPT !.ret = RetSome(w.node[n].elem)]

\* LinkedList::front_mut and LinkedList::back_mut, and the caller writing e
\* through the reference it got; ret is the element the reference showed.
FrontMut(w, l, e) ==
  LET n == w.list[l].front IN
  IF n = NULL THEN [w EXCEPT !.ret = RetNone]
  ELSE IF ~Live(w, n) THEN UB(w, "use_after_free")
  ELSE [w EXCEPT !.ret = RetSome(w.node[n].elem), !.node[n].elem = e]

BackMut(w, l, e) ==
  LET n == w.list[l].back IN
  IF n = NULL THEN [w EXCEPT !.ret = RetNone]
  ELSE IF ~Live(w, n) THEN UB(w, "use_after_free")
  ELSE [w EXCEPT !.ret = RetSome(w.node[n].elem), !.node[n].elem = e]

RECURSIVE Clear(_, _)
Clear(w, l) ==
  LET w1 == PopFront(w, l) IN
  IF w1.ub # "none" \/ w1.panicked THEN w1
  ELSE IF w1.ret = RetNone THEN [w1 EXCEPT !.ret = RetUnit]
  ELSE Clear(w1, l)

\* impl Drop for LinkedList, then the list's own storage goes away (also
\* when the drop unwinds).
Drop(w, l) ==
  LET w1 == Clear(w, l) IN
  IF w1.ub # "none" THEN w1
  ELSE [w1 EXCEPT !.alive[l] = FALSE, !.list[l] = EmptyList, !.ret = RetUnit]

\* Iter: into_iter copies front and len, and next yields the element of front
\* and steps to its next link while len > 0.
RECURSIVE IterNext(_, _, _)
IterNext(w, front, len) ==
  IF len # 0 /\ front # NULL /\ Live(w, front)
  THEN << w.node[front].elem >> \o IterNext(w, w.node[front].back, len - 1)
  ELSE << >>

\* A fully consumed forward iteration over list l.
IterCollect(w, l) == IterNext(w, w.list[l].front, w.list[l].len)

\* Iter from the other end: into_iter copies back and len, and next_back
\* yields the element of back and steps to its previous link while len > 0.
RECURSIVE IterNextBack(_, _, _)
IterNextBack(w, back, len) ==
  IF len # 0 /\ back # NULL /\ Live(w, back)
  THEN << w.node[back].elem >> \o IterNextBack(w, w.node[back].front, len - 1)
  ELSE << >>

\* A fully consumed backward iteration over list l (list.iter().rev()).
IterCollectBack(w, l) == IterNextBack(w, w.list[l].back, w.list[l].len)

\* list.iter() and list.iter_mut(): the iterator copies front, back and len.
IterOf(w, l, k) ==
  [w EXCEPT !.iter = [live |-> TRUE, kind |-> k, list |-> l,
                      front |-> w.list[l].front, back |-> w.list[l].back,
                      len |-> w.list[l].len],
            !.ret = RetIter]

\* Iter::next
Iter_next(w) ==
  LET n == w.iter.front IN
  IF w.iter.len # 0
  THEN IF n = NULL THEN [w EXCEPT !.ret = RetNone]
       ELSE IF ~Live(w, n) THEN UB(w, "use_after_free")
       ELSE [w EXCEPT !.iter.len = @ - 1, !.iter.front = w.node[n].back,
                      !.ret = RetSome(w.node[n].elem)]
  ELSE [w EXCEPT !.ret = RetNone]

\* Iter::next_back
Iter_next_back(w) ==
  LET n == w.iter.back IN
  IF w.iter.len # 0
  THEN IF n = NULL THEN [w EXCEPT !.ret = RetNone]
       ELSE IF ~Live(w, n) THEN UB(w, "use_after_free")
       ELSE [w EXCEPT !.iter.len = @ - 1, !.iter.back = w.node[n].front,
                      !.ret = RetSome(w.node[n].elem)]
  ELSE [w EXCEPT !.ret = RetNone]

\* IterMut::next
IterMut_next(w) ==
  LET n == w.iter.front IN
  IF w.iter.len # 0
  THEN IF n = NULL THEN [w EXCEPT !.ret = RetNone]
       ELSE IF ~Live(w, n) THEN UB(w, "use_after_free")
       ELSE [w EXCEPT !.iter.len = @ - 1, !.iter.front = w.node[n].back,
                      !.ret = RetSome(w.node[n].elem)]
  ELSE [w EXCEPT !.ret = RetNone]

\* IterMut::next_back without "self.len -= 1".
IterMut_next_back_KeepsLen(w) ==
  LET n == w.iter.back IN
  IF w.iter.len # 0
  THEN IF n = NULL THEN [w EXCEPT !.ret = RetNone]
       ELSE IF ~Live(w, n) THEN UB(w, "use_after_free")
       ELSE [w EXCEPT !.iter.back = w.node[n].front,
                      !.ret = RetSome(w.node[n].elem)]
  ELSE [w EXCEPT !.ret = RetNone]

\* IterMut::next_back
IterMut_next_back(w) ==
  LET n == w.iter.back IN
  IF w.iter.len # 0
  THEN IF n = NULL THEN [w EXCEPT !.ret = RetNone]
       ELSE IF ~Live(w, n) THEN UB(w, "use_after_free")
       ELSE [w EXCEPT !.iter.len = @ - 1, !.iter.back = w.node[n].front,
                      !.ret = RetSome(w.node[n].elem)]
  ELSE [w EXCEPT !.ret = RetNone]

\* size_hint with no upper bound: (self.len, None).
Iter_size_hint_NoUpper(w) == [w EXCEPT !.ret = RetSizeHint(w.iter.len, None)]

\* Iter::size_hint and IterMut::size_hint, Iter::len and IterMut::len
Iter_size_hint(w) == [w EXCEPT !.ret = RetSizeHint(w.iter.len, Some(w.iter.len))]
Iter_len(w) == [w EXCEPT !.ret = RetLen(w.iter.len)]

\* list.into_iter(): IntoIter { list: self }.  The list stays in its slot,
\* owned by the iterator.
IntoIterOf(w, l) ==
  [w EXCEPT !.iter = [live |-> TRUE, kind |-> "IntoIter", list |-> l,
                      front |-> NULL, back |-> NULL, len |-> 0],
            !.ret = RetIter]

\* IntoIter::next popping from the wrong end.
IntoIter_next_FromBack(w) == PopBack(w, w.iter.list)

\* IntoIter::next and IntoIter::next_back
IntoIter_next(w) == PopFront(w, w.iter.list)
IntoIter_next_back(w) == PopBack(w, w.iter.list)

\* IntoIter::size_hint and IntoIter::len
IntoIter_size_hint(w) ==
  LET n == w.list[w.iter.list].len IN [w EXCEPT !.ret = RetSizeHint(n, Some(n))]
IntoIter_len(w) == [w EXCEPT !.ret = RetLen(w.list[w.iter.list].len)]

\* The IntoIter is dropped, and its list with it.
IntoIter_drop(w) ==
  LET d == Drop(w, w.iter.list) IN
  IF d.ub # "none" THEN d ELSE [d EXCEPT !.iter = NoIter]

\* A clone that copies the LinkedList value, pointers included.
Clone_Shallow(w, src, dst) ==
  [w EXCEPT !.alive[dst] = TRUE, !.list[dst] = w.list[src], !.ret = RetList]

\* The loop of clone: for item in self { new_list.push_back(item.clone()) },
\* with the Iter over the source at front and len.
RECURSIVE CloneLoop(_, _, _, _)
CloneLoop(w, dst, front, len) ==
  IF w.ub # "none" THEN w
  ELSE IF len # 0 /\ front # NULL
  THEN IF ~Live(w, front) THEN UB(w, "use_after_free")
       ELSE CloneLoop(PushBack(w, dst, w.node[front].elem), dst,
                      w.node[front].back, len - 1)
  ELSE w

\* impl Clone for LinkedList; the new list goes to slot dst.
Clone(w, src, dst) ==
  LET w0 == [w EXCEPT !.alive[dst] = TRUE, !.list[dst] = EmptyList]
      w1 == CloneLoop(w0, dst, w.list[src].front, w.list[src].len)
  IN IF w1.ub # "none" THEN w1 ELSE [w1 EXCEPT !.ret = RetList]

\* extend that pushes every item to the front.
RECURSIVE Extend_PushFront(_, _, _)
Extend_PushFront(w, l, t) ==
  IF w.ub # "none" THEN w
  ELSE IF t = << >> THEN [w EXCEPT !.ret = RetUnit]
  ELSE Extend_PushFront(PushFront(w, l, Head(t)), l, Tail(t))

\* impl Extend for LinkedList: for item in iter { self.push_back(item) }
RECURSIVE Extend(_, _, _)
Extend(w, l, t) ==
  IF w.ub # "none" THEN w
  ELSE IF t = << >> THEN [w EXCEPT !.ret = RetUnit]
  ELSE Extend(PushBack(w, l, Head(t)), l, Tail(t))

\* impl FromIterator for LinkedList: new, then extend; the list goes to
\* slot l.
FromIter(w, l, t) ==
  LET w1 == Extend([w EXCEPT !.alive[l] = TRUE, !.list[l] = EmptyList], l, t)
  IN IF w1.ub # "none" THEN w1 ELSE [w1 EXCEPT !.ret = RetList]

----------------------------------------------------------------------------
(* Comparison and hashing of the elements and of the lists *)

\* T::eq and T::partial_cmp of the element type, T::cmp where T is Ord.
ElemEq(x, y) == x # NaN /\ y # NaN /\ x = y

ElemPartialCmp(x, y) ==
  IF x = NaN \/ y = NaN THEN None
  ELSE IF x < y THEN Some("Less")
  ELSE IF x > y THEN Some("Greater")
  ELSE Some("Equal")

ElemCmp(x, y) == IF x < y THEN "Less" ELSE IF x > y THEN "Greater" ELSE "Equal"

\* A list of an element type that is Ord and Hash holds no NaN.
IsOrd(s) == \A i \in 1..Len(s) : s[i] # NaN

\* Iterator::eq over the elements s and t the two iterators yield: false at
\* the first pair that is not equal or when one side ends first.
RECURSIVE IterEq(_, _)
IterEq(s, t) ==
  IF s = << >> THEN t = << >>
  ELSE IF t = << >> THEN FALSE
  ELSE IF ~ElemEq(Head(s), Head(t)) THEN FALSE
  ELSE IterEq(Tail(s), Tail(t))

\* Iterator::ne
IterNe(s, t) == ~IterEq(s, t)

\* Iterator::partial_cmp that steps over an incomparable pair.
RECURSIVE IterPartialCmp_SkipsNone(_, _)
IterPartialCmp_SkipsNone(s, t) ==
  IF s = << >> THEN (IF t = << >> THEN Some("Equal") ELSE Some("Less"))
  ELSE IF t = << >> THEN Some("Greater")
  ELSE LET o == ElemPartialCmp(Head(s), Head(t)) IN
       IF o = Some("Equal") \/ o = None
       THEN IterPartialCmp_SkipsNone(Tail(s), Tail(t))
       ELSE o

\* Iterator::partial_cmp: the first pair that does not compare Equal decides,
\* then the side that ends first is Less.
RECURSIVE IterPartialCmp(_, _)
IterPartialCmp(s, t) ==
  IF s = << >> THEN (IF t = << >> THEN Some("Equal") ELSE Some("Less"))
  ELSE IF t = << >> THEN Some("Greater")
  ELSE LET o == ElemPartialCmp(Head(s), Head(t)) IN
       IF o = Some("Equal") THEN IterPartialCmp(Tail(s), Tail(t)) ELSE o

\* Iterator::cmp
RECURSIVE IterCmp(_, _)
IterCmp(s, t) ==
  IF s = << >> THEN (IF t = << >> THEN "Equal" ELSE "Less")
  ELSE IF t = << >> THEN "Greater"
  ELSE LET o == ElemCmp(Head(s), Head(t)) IN
       IF o = "Equal" THEN IterCmp(Tail(s), Tail(t)) ELSE o

\* != that compares the elements by identity of their bits.
ListNe_Bitwise(w, a, b) ==
  w.list[a].len # w.list[b].len \/ IterCollect(w, a) # IterCollect(w, b)

\* impl PartialEq for LinkedList: eq and ne
ListEq(w, a, b) ==
  w.list[a].len = w.list[b].len /\ IterEq(IterCollect(w, a), IterCollect(w, b))

ListNe(w, a, b) ==
  w.list[a].len # w.list[b].len \/ IterNe(IterCollect(w, a), IterCollect(w, b))

\* impl PartialOrd for LinkedList: partial_cmp, and the lt, le, gt and ge
\* that PartialOrd derives from it.
ListPartialCmp(w, a, b) == IterPartialCmp(IterCollect(w, a), IterCollect(w, b))

\* < that is true whenever >= is not.
ListLt_NotGe(w, a, b) ==
  ListPartialCmp(w, a, b) \notin {Some("Greater"), Some("Equal")}

ListLt(w, a, b) == ListPartialCmp(w, a, b) = Some("Less")
ListLe(w, a, b) == ListPartialCmp(w, a, b) \in {Some("Less"), Some("Equal")}
ListGt(w, a, b) == ListPartialCmp(w, a, b) = Some("Greater")
ListGe(w, a, b) == ListPartialCmp(w, a, b) \in {Some("Greater"), Some("Equal")}

\* impl Ord for LinkedList: cmp
ListCmp(w, a, b) == IterCmp(IterCollect(w, a), IterCollect(w, b))

\* hash that feeds the elements only.
ListHash_NoLen(w, l) == IterCollect(w, l)

\* impl Hash for LinkedList: what hash feeds to the Hasher, the len and then
\* each element (an integer element feeds its value).
ListHash(w, l) == << w.list[l].len >> \o IterCollect(w, l)

----------------------------------------------------------------------------
(* CursorMut: the cursor borrows list cursor.list; a split returns its     *)
(* list into the other slot, a splice consumes the list of the other slot. *)

CursorMutOf(w, l) ==
  [w EXCEPT !.cursor = [live |-> TRUE, list |-> l, cur |-> NULL, index |-> None],
            !.ret = RetCursor]

\* move_next that leaves the cursor where it is.
MoveNext_Stays(w) == w

MoveNext(w) ==
  LET c == w.cursor
      L == c.list
  IN IF c.cur # NULL
     THEN IF ~Live(w, c.cur) THEN UB(w, "use_after_free")
          ELSE LET nxt == w.node[c.cur].back
                   w1 == [w EXCEPT !.cursor.cur = nxt]
               IN IF nxt # NULL
                  THEN IF c.index = None THEN Panic(w1)
                       ELSE [w1 EXCEPT !.cursor.index = Some(c.index[1] + 1)]
                  ELSE [w1 EXCEPT !.cursor.index = None]
     ELSE IF w.list[L].len # 0
          THEN [w EXCEPT !.cursor.cur = w.list[L].front,
                         !.cursor.index = Some(0)]
          ELSE w

\* MovePrev that steps from the ghost to the back with index len, not len - 1.
MovePrev_IndexLen(w) ==
  LET c == w.cursor
      L == c.list
  IN IF c.cur # NULL
     THEN IF ~Live(w, c.cur) THEN UB(w, "use_after_free")
          ELSE LET prv == w.node[c.cur].front
                   w1 == [w EXCEPT !.cursor.cur = prv]
               IN IF prv # NULL
                  THEN IF c.index = None THEN Panic(w1)
                       ELSE IF overflow_checks /\ c.index[1] = 0 THEN Panic(w1)
                       ELSE [w1 EXCEPT !.cursor.index = Some(c.index[1] - 1)]
                  ELSE [w1 EXCEPT !.cursor.index = None]
     ELSE IF w.list[L].len # 0
          THEN [w EXCEPT !.cursor.cur = w.list[L].back,
                         !.cursor.index = Some(w.list[L].len)]
          ELSE w

\* move_prev without `*self.index.as_mut().unwrap() -= 1`
MovePrev_KeepsIndex(w) ==
  LET c == w.cursor
      L == c.list
  IN IF c.cur # NULL
     THEN IF ~Live(w, c.cur) THEN UB(w, "use_after_free")
          ELSE LET prv == w.node[c.cur].front
                   w1 == [w EXCEPT !.cursor.cur = prv]
               IN IF prv # NULL
                  THEN IF c.index = None THEN Panic(w1) ELSE w1
                  ELSE [w1 EXCEPT !.cursor.index = None]
     ELSE IF w.list[L].len # 0
          THEN [w EXCEPT !.cursor.cur = w.list[L].back,
                         !.cursor.index = Some(w.list[L].len - 1)]
          ELSE w

MovePrev(w) ==
  LET c == w.cursor
      L == c.list
  IN IF c.cur # NULL
     THEN IF ~Live(w, c.cur) THEN UB(w, "use_after_free")
          ELSE LET prv == w.node[c.cur].front
                   w1 == [w EXCEPT !.cursor.cur = prv]
               IN IF prv # NULL
                  THEN IF c.index = None THEN Panic(w1)
                       ELSE IF overflow_checks /\ c.index[1] = 0 THEN Panic(w1)
                       ELSE [w1 EXCEPT !.cursor.index = Some(c.index[1] - 1)]
                  ELSE [w1 EXCEPT !.cursor.index = None]
     ELSE IF w.list[L].len # 0
          THEN [w EXCEPT !.cursor.cur = w.list[L].back,
                         !.cursor.index = Some(w.list[L].len - 1)]
          ELSE w

\* &mut (*node.as_ptr()).elem of the node a link names, if any.
ElemOf(w, link) ==
  IF link = NULL THEN [w EXCEPT !.ret = RetNone]
  ELSE IF ~Live(w, link) THEN UB(w, "use_after_free")
  ELSE [w EXCEPT !.ret = RetSome(w.node[link].elem)]

Current(w) == ElemOf(w, w.cursor.cur)

PeekNext(w) ==
  LET c == w.cursor IN
  IF c.cur # NULL
  THEN IF ~Live(w, c.cur) THEN UB(w, "use_after_free")
       ELSE ElemOf(w, w.node[c.cur].back)
  ELSE ElemOf(w, w.list[c.list].front)

\* PeekPrev that looks at the list's front, not its back, from the ghost.
PeekPrev_GhostFront(w) ==
  LET c == w.cursor IN
  IF c.cur # NULL
  THEN IF ~Live(w, c.cur) THEN UB(w, "use_after_free")
       ELSE ElemOf(w, w.node[c.cur].front)
  ELSE ElemOf(w, w.list[c.list].front)

PeekPrev(w) ==
  LET c == w.cursor IN
  IF c.cur # NULL
  THEN IF ~Live(w, c.cur) THEN UB(w, "use_after_free")
       ELSE ElemOf(w, w.node[c.cur].front)
  ELSE ElemOf(w, w.list[c.list].back)

\* SplitBefore whose ghost branch copies self.list instead of replacing it
\* with a new list.
SplitBefore_GhostCopies(w) ==
  LET c == w.cursor
      L == c.list
      O == Other(L)
      cur == c.cur
  IN IF cur # NULL
     THEN IF c.index = None THEN Panic(w)
          ELSE IF ~Live(w, cur) THEN UB(w, "use_after_free")
          ELSE
            LET old_len == w.list[L].len
                old_idx == c.index[1]
                prev == w.node[cur].front
                new_len == old_len - old_idx
                new_front == cur
                new_back == w.list[L].back
                output_len == old_len - new_len
                output_front == w.list[L].front
                output_back == prev
                w1 == IF prev # NULL
                      THEN WrBack(WrFront(w, cur, NULL), prev, NULL)
                      ELSE w
            IN IF overflow_checks /\ old_len < old_idx THEN Panic(w)
               ELSE IF w1.ub # "none" THEN w1
               ELSE [w1 EXCEPT
                       !.list[L] = [front |-> new_front, back |-> new_back,
                                    len |-> new_len],
                       !.cursor.index = Some(0),
                       !.list[O] = [front |-> output_front,
                                    back |-> output_back, len |-> output_len],
                       !.alive[O] = TRUE, !.ret = RetList]
     ELSE [w EXCEPT !.list[O] = w.list[L], !.alive[O] = TRUE, !.ret = RetList]

SplitBefore(w) ==
  LET c == w.cursor
      L == c.list
      O == Other(L)
      cur == c.cur
  IN IF cur # NULL
     THEN IF c.index = None THEN Panic(w)
          ELSE IF ~Live(w, cur) THEN UB(w, "use_after_free")
          ELSE
            LET old_len == w.list[L].len
                old_idx == c.index[1]
                prev == w.node[cur].front
                new_len == old_len - old_idx
                new_front == cur
                new_back == w.list[L].back
                output_len == old_len - new_len
                output_front == w.list[L].front
                output_back == prev
                w1 == IF prev # NULL
                      THEN WrBack(WrFront(w, cur, NULL), prev, NULL)
                      ELSE w
            IN IF overflow_checks /\ old_len < old_idx THEN Panic(w)
               ELSE IF w1.ub # "none" THEN w1
               ELSE [w1 EXCEPT
                       !.list[L] = [front |-> new_front, back |-> new_back,
                                    len |-> new_len],
                       !.cursor.index = Some(0),
                       !.list[O] = [front |-> output_front,
                                    back |-> output_back, len |-> output_len],
                       !.alive[O] = TRUE, !.ret = RetList]
     ELSE [w EXCEPT !.list[O] = w.list[L], !.alive[O] = TRUE,
                    !.list[L] = EmptyList, !.ret = RetList]

\* split_after that cuts the link into the list's back node instead of the
\* link into the node after the current one
SplitAfter_UnlinksBack(w) ==
  LET c == w.cursor
      L == c.list
      O == Other(L)
      cur == c.cur
  IN IF cur # NULL
     THEN IF c.index = None THEN Panic(w)
          ELSE IF ~Live(w, cur) THEN UB(w, "use_after_free")
          ELSE
            LET old_len == w.list[L].len
                old_idx == c.index[1]
                next == w.node[cur].back
                new_len == old_idx + 1
                output_len == old_len - new_len
                output_back == w.list[L].back
                w1 == IF next # NULL
                      THEN WrFront(WrBack(w, cur, NULL), output_back, NULL)
                      ELSE w
            IN IF overflow_checks /\ old_len < new_len THEN Panic(w)
               ELSE IF w1.ub # "none" THEN w1
               ELSE [w1 EXCEPT
                       !.list[L] = [front |-> w.list[L].front, back |-> cur,
                                    len |-> new_len],
                       !.list[O] = [front |-> next, back |-> output_back,
                                    len |-> output_len],
                       !.alive[O] = TRUE, !.ret = RetList]
     ELSE [w EXCEPT !.list[O] = w.list[L], !.alive[O] = TRUE,
                    !.list[L] = EmptyList, !.ret = RetList]

SplitAfter(w) ==
  LET c == w.cursor
      L == c.list
      O == Other(L)
      cur == c.cur
  IN IF cur # NULL
     THEN IF c.index = None THEN Panic(w)
          ELSE IF ~Live(w, cur) THEN UB(w, "use_after_free")
          ELSE
            LET old_len == w.list[L].len
                old_idx == c.index[1]
                next == w.node[cur].back
                new_len == old_idx + 1
                new_back == cur
                new_front == w.list[L].front
                output_len == old_len - new_len
                output_front == next
                output_back == w.list[L].back
                w1 == IF next # NULL
                      THEN WrFront(WrBack(w, cur, NULL), next, NULL)
                      ELSE w
            IN IF overflow_checks /\ old_len < new_len THEN Panic(w)
               ELSE IF w1.ub # "none" THEN w1
               ELSE [w1 EXCEPT
                       !.list[L] = [front |-> new_front, back |-> new_back,
                                    len |-> new_len],
                       !.cursor.index = Some(old_idx),
                       !.list[O] = [front |-> output_front,
                                    back |-> output_back, len |-> output_len],
                       !.alive[O] = TRUE, !.ret = RetList]
     ELSE [w EXCEPT !.list[O] = w.list[L], !.alive[O] = TRUE,
                    !.list[L] = EmptyList, !.ret = RetList]

\* A panic inside a splice unwinds through the function: its input is dropped.
Unwind(w, I) == IF w.ub # "none" THEN w ELSE Panic(Drop(w, I))

\* self.list.len += input.len; input.len = 0; and the input is dropped.
\* SpliceEnd without "self.list.len += input.len".
SpliceEnd_NoLen(w, L, I) ==
  IF w.ub # "none" THEN w
  ELSE LET d == Drop([w EXCEPT !.list[I].len = 0], I)
       IN IF d.ub # "none" \/ d.panicked THEN d
          ELSE [d EXCEPT !.ret = RetSpliced]

SpliceEnd(w, L, I) ==
  IF w.ub # "none" THEN w
  ELSE LET d == Drop([w EXCEPT !.list[L].len = @ + w.list[I].len,
                               !.list[I].len = 0], I)
       IN IF d.ub # "none" \/ d.panicked THEN d
          ELSE [d EXCEPT !.ret = RetSpliced]

\* SpliceBefore without the "if input.is_empty()" branch.
SpliceBefore_NoEmptyCheck(w) ==
  LET c == w.cursor
      L == c.list
      I == Other(L)
      cur == c.cur
      input == w.list[I]
      in_front == input.front
      in_back == input.back
      t1 == [w EXCEPT !.list[I].front = NULL]
      t2 == [w EXCEPT !.list[I].front = NULL, !.list[I].back = NULL]
      back == w.list[L].back
  IN IF cur # NULL
     THEN IF in_front = NULL THEN Unwind(t1, I)
          ELSE IF in_back = NULL THEN Unwind(t2, I)
          ELSE IF ~Live(t2, cur) THEN UB(t2, "use_after_free")
          ELSE
            LET prev == t2.node[cur].front
                w1 == IF prev # NULL
                      THEN WrBack(WrFront(WrFront(WrBack(t2, prev, in_front),
                                                  in_front, prev),
                                          cur, in_back),
                                  in_back, cur)
                      ELSE LET x == WrBack(WrFront(t2, cur, in_back),
                                           in_back, cur)
                           IN IF x.ub # "none" THEN x
                              ELSE [x EXCEPT !.list[L].front = in_front]
            IN IF w1.ub # "none" THEN w1
               ELSE IF c.index = None THEN Unwind(w1, I)
               ELSE SpliceEnd([w1 EXCEPT !.cursor.index =
                                           Some(c.index[1] + input.len)], L, I)
     ELSE IF back # NULL
     THEN IF in_front = NULL THEN Unwind(t1, I)
          ELSE IF in_back = NULL THEN Unwind(t2, I)
          ELSE LET x == WrFront(WrBack(t2, back, in_front), in_front, back)
               IN IF x.ub # "none" THEN x
                  ELSE SpliceEnd([x EXCEPT !.list[L].back = in_back], L, I)
     ELSE SpliceEnd([w EXCEPT !.list[L] = w.list[I], !.list[I] = w.list[L]],
                    L, I)

SpliceBefore(w) ==
  LET c == w.cursor
      L == c.list
      I == Other(L)
      cur == c.cur
      input == w.list[I]
      in_front == input.front
      in_back == input.back
      t1 == [w EXCEPT !.list[I].front = NULL]
      t2 == [w EXCEPT !.list[I].front = NULL, !.list[I].back = NULL]
      back == w.list[L].back
  IN IF input.len = 0 THEN SpliceEnd(w, L, I)
     ELSE IF cur # NULL
     THEN IF in_front = NULL THEN Unwind(t1, I)
          ELSE IF in_back = NULL THEN Unwind(t2, I)
          ELSE IF ~Live(t2, cur) THEN UB(t2, "use_after_free")
          ELSE
            LET prev == t2.node[cur].front
                w1 == IF prev # NULL
                      THEN WrBack(WrFront(WrFront(WrBack(t2, prev, in_front),
                                                  in_front, prev),
                                          cur, in_back),
                                  in_back, cur)
                      ELSE LET x == WrBack(WrFront(t2, cur, in_back),
                                           in_back, cur)
                           IN IF x.ub # "none" THEN x
                              ELSE [x EXCEPT !.list[L].front = in_front]
            IN IF w1.ub # "none" THEN w1
               ELSE IF c.index = None THEN Unwind(w1, I)
               ELSE SpliceEnd([w1 EXCEPT !.cursor.index =
                                           Some(c.index[1] + input.len)], L, I)
     ELSE IF back # NULL
     THEN IF in_front = NULL THEN Unwind(t1, I)
          ELSE IF in_back = NULL THEN Unwind(t2, I)
          ELSE LET x == WrFront(WrBack(t2, back, in_front), in_front, back)
               IN IF x.ub # "none" THEN x
                  ELSE SpliceEnd([x EXCEPT !.list[L].back = in_back], L, I)
     ELSE SpliceEnd([w EXCEPT !.list[L] = w.list[I], !.list[I] = w.list[L]],
                    L, I)

\* SpliceAfter without "self.list.front = Some(in_front)" in the branch for
\* the ghost of a non-empty list.
SpliceAfter_GhostKeepsFront(w) ==
  LET c == w.cursor
      L == c.list
      I == Other(L)
      cur == c.cur
      input == w.list[I]
      in_front == input.front
      in_back == input.back
      t1 == [w EXCEPT !.list[I].front = NULL]
      t2 == [w EXCEPT !.list[I].front = NULL, !.list[I].back = NULL]
      front == w.list[L].front
  IN IF input.len = 0 THEN SpliceEnd(w, L, I)
     ELSE IF cur # NULL
     THEN IF in_front = NULL THEN Unwind(t1, I)
          ELSE IF in_back = NULL THEN Unwind(t2, I)
          ELSE IF ~Live(t2, cur) THEN UB(t2, "use_after_free")
          ELSE
            LET next == t2.node[cur].back
                w1 == IF next # NULL
                      THEN WrFront(WrBack(WrBack(WrFront(t2, next, in_back),
                                                 in_back, next),
                                          cur, in_front),
                                   in_front, cur)
                      ELSE LET x == WrFront(WrBack(t2, cur, in_front),
                                            in_front, cur)
                           IN IF x.ub # "none" THEN x
                              ELSE [x EXCEPT !.list[L].back = in_back]
            IN SpliceEnd(w1, L, I)
     ELSE IF front # NULL
     THEN IF in_front = NULL THEN Unwind(t1, I)
          ELSE IF in_back = NULL THEN Unwind(t2, I)
          ELSE LET x == WrBack(WrFront(t2, front, in_back), in_back, front)
               IN IF x.ub # "none" THEN x
                  ELSE SpliceEnd(x, L, I)
     ELSE SpliceEnd([w EXCEPT !.list[L] = w.list[I], !.list[I] = w.list[L]],
                    L, I)

SpliceAfter(w) ==
  LET c == w.cursor
      L == c.list
      I == Other(L)
      cur == c.cur
      input == w.list[I]
      in_front == input.front
      in_back == input.back
      t1 == [w EXCEPT !.list[I].front = NULL]
      t2 == [w EXCEPT !.list[I].front = NULL, !.list[I].back = NULL]
      front == w.list[L].front
  IN IF input.len = 0 THEN SpliceEnd(w, L, I)
     ELSE IF cur # NULL
     THEN IF in_front = NULL THEN Unwind(t1, I)
          ELSE IF in_back = NULL THEN Unwind(t2, I)
          ELSE IF ~Live(t2, cur) THEN UB(t2, "use_after_free")
          ELSE
            LET next == t2.node[cur].back
                w1 == IF next # NULL
                      THEN WrFront(WrBack(WrBack(WrFront(t2, next, in_back),
                                                 in_back, next),
                                          cur, in_front),
                                   in_front, cur)
                      ELSE LET x == WrFront(WrBack(t2, cur, in_front),
                                            in_front, cur)
                           IN IF x.ub # "none" THEN x
                              ELSE [x EXCEPT !.list[L].back = in_back]
            IN SpliceEnd(w1, L, I)
     ELSE IF front # NULL
     THEN IF in_front = NULL THEN Unwind(t1, I)
          ELSE IF in_back = NULL THEN Unwind(t2, I)
          ELSE LET x == WrBack(WrFront(t2, front, in_back), in_back, front)
               IN IF x.ub # "none" THEN x
                  ELSE SpliceEnd([x EXCEPT !.list[L].front = in_front], L, I)
     ELSE SpliceEnd([w EXCEPT !.list[L] = w.list[I], !.list[I] = w.list[L]],
                    L, I)

----------------------------------------------------------------------------
(* Actions *)

\* A call that runs into undefined behaviour leaves no defined state: the
\* state before the call is kept and only ub records what happened.
Commit(w) ==
  /\ IF w.ub # "none"
     THEN /\ ub' = w.ub
          /\ UNCHANGED << node, status, list, alive, cursor, iter, panicked,
                          ret >>
     ELSE /\ node' = w.node
          /\ status' = w.status
          /\ list' = w.list
          /\ alive' = w.alive
          /\ cursor' = w.cursor
          /\ iter' = w.iter
          /\ ub' = w.ub
          /\ panicked' = w.panicked
          /\ ret' = w.ret
  /\ damaged' = IF w.ub # "none" THEN damaged
                ELSE IF SoundIn(w) THEN 0 ELSE damaged + 1
  /\ UNCHANGED << overflow_checks, fifthVars, threadVars >>

\* Calls are followed while the structure satisfies its invariants and for
\* MaxDamaged calls after it first stops doing so (damaged counts the states
\* in a row that do not satisfy them).
Running == ub = "none" /\ damaged <= MaxDamaged

\* &mut borrow of list l is available: no cursor is bound to it and no
\* iterator borrows or owns it.
Unborrowed(l) ==
  /\ ~(cursor.live /\ cursor.list = l)
  /\ ~(iter.live /\ iter.list = l)

new(l) ==
  /\ Running
  /\ ~alive[l]
  /\ Commit([World EXCEPT !.alive[l] = TRUE, !.list[l] = EmptyList,
                          !.ret = RetList])

push_front(l, e) ==
  /\ Running /\ alive[l] /\ Unborrowed(l) /\ CanAlloc
  /\ Commit(PushFront(World, l, e))

push_back(l, e) ==
  /\ Running /\ alive[l] /\ Unborrowed(l) /\ CanAlloc
  /\ Commit(PushBack(World, l, e))

pop_front(l) ==
  /\ Running /\ alive[l] /\ Unborrowed(l)
  /\ Commit(PopFront(World, l))

pop_back(l) ==
  /\ Running /\ alive[l] /\ Unborrowed(l)
  /\ Commit(PopBack(World, l))

front(l) ==
  /\ Running /\ alive[l] /\ Unborrowed(l)
  /\ Commit(Front(World, l))

back(l) ==
  /\ Running /\ alive[l] /\ Unborrowed(l)
  /\ Commit(Back(World, l))

front_mut(l, e) ==
  /\ Running /\ alive[l] /\ Unborrowed(l)
  /\ Commit(FrontMut(World, l, e))

back_mut(l, e) ==
  /\ Running /\ alive[l] /\ Unborrowed(l)
  /\ Commit(BackMut(World, l, e))

clear(l) ==
  /\ Running /\ alive[l] /\ Unborrowed(l)
  /\ Commit(Clear(World, l))

drop(l) ==
  /\ Running /\ alive[l] /\ Unborrowed(l)
  /\ Commit(Drop(World, l))

\* for x in &list / list.iter(), and list.iter_mut()
iter_new(l, k) ==
  /\ Running /\ alive[l] /\ ~iter.live /\ Unborrowed(l)
  /\ Commit(IterOf(World, l, k))

iter_next ==
  /\ Running /\ iter.live /\ iter.kind \in IterKinds
  /\ Commit(IF iter.kind = "Iter" THEN Iter_next(World)
            ELSE IterMut_next(World))

iter_next_back ==
  /\ Running /\ iter.live /\ iter.kind \in IterKinds
  /\ Commit(IF iter.kind = "Iter" THEN Iter_next_back(World)
            ELSE IterMut_next_back(World))

iter_size_hint ==
  /\ Running /\ iter.live /\ iter.kind \in IterKinds
  /\ Commit(Iter_size_hint(World))

iter_len ==
  /\ Running /\ iter.live /\ iter.kind \in IterKinds
  /\ Commit(Iter_len(World))

\* The iterator goes out of scope and the borrow of its list ends.
iter_end ==
  /\ Running /\ iter.live /\ iter.kind \in IterKinds
  /\ Commit([World EXCEPT !.iter = NoIter])

into_iter(l) ==
  /\ Running /\ alive[l] /\ ~iter.live /\ Unborrowed(l)
  /\ Commit(IntoIterOf(World, l))

into_iter_next ==
  /\ Running /\ iter.live /\ iter.kind = "IntoIter"
  /\ Commit(IntoIter_next(World))

into_iter_next_back ==
  /\ Running /\ iter.live /\ iter.kind = "IntoIter"
  /\ Commit(IntoIter_next_back(World))

into_iter_size_hint ==
  /\ Running /\ iter.live /\ iter.kind = "IntoIter"
  /\ Commit(IntoIter_size_hint(World))

into_iter_len ==
  /\ Running /\ iter.live /\ iter.kind = "IntoIter"
  /\ Commit(IntoIter_len(World))

into_iter_drop ==
  /\ Running /\ iter.live /\ iter.kind = "IntoIter"
  /\ Commit(IntoIter_drop(World))

\* a == b, a != b, a < b, a <= b, a > b, a >= b
list_eq(a, b) ==
  /\ Running /\ alive[a] /\ alive[b]
  /\ Commit([World EXCEPT !.ret = RetBool("eq", ListEq(World, a, b))])

list_ne(a, b) ==
  /\ Running /\ alive[a] /\ alive[b]
  /\ Commit([World EXCEPT !.ret = RetBool("ne", ListNe(World, a, b))])

list_lt(a, b) ==
  /\ Running /\ alive[a] /\ alive[b]
  /\ Commit([World EXCEPT !.ret = RetBool("lt", ListLt(World, a, b))])

list_le(a, b) ==
  /\ Running /\ alive[a] /\ alive[b]
  /\ Commit([World EXCEPT !.ret = RetBool("le", ListLe(World, a, b))])

list_gt(a, b) ==
  /\ Running /\ alive[a] /\ alive[b]
  /\ Commit([World EXCEPT !.ret = RetBool("gt", ListGt(World, a, b))])

list_ge(a, b) ==
  /\ Running /\ alive[a] /\ alive[b]
  /\ Commit([World EXCEPT !.ret = RetBool("ge", ListGe(World, a, b))])

list_partial_cmp(a, b) ==
  /\ Running /\ alive[a] /\ alive[b]
  /\ Commit([World EXCEPT !.ret = RetPartialCmp(ListPartialCmp(World, a, b))])

\* cmp and hash need an element type that is Ord and Hash.
list_cmp(a, b) ==
  /\ Running /\ alive[a] /\ alive[b]
  /\ IsOrd(IterCollect(World, a)) /\ IsOrd(IterCollect(World, b))
  /\ Commit([World EXCEPT !.ret = RetCmp(ListCmp(World, a, b))])

list_hash(l) ==
  /\ Running /\ alive[l]
  /\ IsOrd(IterCollect(World, l))
  /\ Commit([World EXCEPT !.ret = RetHash(ListHash(World, l))])

\* l.clone(), into the other slot; the allocator has a node for every
\* element.
clone(l) ==
  /\ Running /\ alive[l] /\ Unborrowed(l) /\ ~alive[Other(l)]
  /\ Cardinality({n \in Nodes : status[n] = "unalloc"})
       >= Len(IterCollect(World, l))
  /\ Commit(Clone(World, l, Other(l)))

\* The allocator has a node for every element of input t.
CanAllocAll(t) == Cardinality({n \in Nodes : status[n] = "unalloc"}) >= Len(t)

extend(l, t) ==
  /\ Running /\ alive[l] /\ Unborrowed(l) /\ CanAllocAll(t)
  /\ Commit(Extend(World, l, t))

\* t.into_iter().collect()
from_iter(l, t) ==
  /\ Running /\ ~alive[l] /\ CanAllocAll(t)
  /\ Commit(FromIter(World, l, t))

cursor_mut(l) ==
  /\ Running /\ alive[l] /\ ~cursor.live /\ Unborrowed(l)
  /\ Commit(CursorMutOf(World, l))

\* The cursor goes out of scope and the borrow of its list ends.
cursor_end ==
  /\ Running /\ cursor.live
  /\ Commit([World EXCEPT !.cursor = NoCursor])

move_next ==
  /\ Running /\ cursor.live
  /\ Commit(MoveNext(World))

move_prev ==
  /\ Running /\ cursor.live
  /\ Commit(MovePrev(World))

current ==
  /\ Running /\ cursor.live
  /\ Commit(Current(World))

peek_next ==
  /\ Running /\ cursor.live
  /\ Commit(PeekNext(World))

peek_prev ==
  /\ Running /\ cursor.live
  /\ Commit(PeekPrev(World))

split_before ==
  /\ Running /\ cursor.live /\ ~alive[Other(cursor.list)]
  /\ Commit(SplitBefore(World))

split_after ==
  /\ Running /\ cursor.live /\ ~alive[Other(cursor.list)]
  /\ Commit(SplitAfter(World))

splice_before ==
  /\ Running /\ cursor.live /\ alive[Other(cursor.list)]
  /\ Unborrowed(Other(cursor.list))
  /\ Commit(SpliceBefore(World))

splice_after ==
  /\ Running /\ cursor.live /\ alive[Other(cursor.list)]
  /\ Unborrowed(Other(cursor.list))
  /\ Commit(SpliceAfter(World))

----------------------------------------------------------------------------
(* fifth.rs: the singly-linked queue with a raw tail pointer *)

FifthGarbage == [elem |-> 0, next |-> NULL]

\* The queue and its heap as one value, so that methods compose.
Fifth ==
  [head |-> head, tail |-> tail, node |-> fifth_node,
   status |-> fifth_status, ub |-> "none", ret |-> RetUnit]

FifthCanAlloc == \E n \in Nodes : fifth_status[n] = "unalloc"

\* Box::into_raw(Box::new(..)): a fresh address.
FifthNewNode(q) == CHOOSE n \in Nodes :
                     /\ q.status[n] = "unalloc"
                     /\ \A k \in Nodes : k < n => q.status[k] # "unalloc"

Push(q, elem) ==
  LET new_tail == FifthNewNode(q)
      q1 == [q EXCEPT !.node[new_tail] = [elem |-> elem, next |-> NULL],
                      !.status[new_tail] = "live"]
  IN IF q.tail # NULL
     THEN IF q1.status[q.tail] # "live"
          THEN [q EXCEPT !.ub = "use_after_free"]
          ELSE [q1 EXCEPT !.node[q.tail].next = new_tail,
                          !.tail = new_tail, !.ret = RetUnit]
     ELSE [q1 EXCEPT !.head = new_tail, !.tail = new_tail, !.ret = RetUnit]

\* pop without `self.tail = ptr::null_mut()`
Pop_KeepsTail(q) ==
  IF q.head = NULL THEN [q EXCEPT !.ret = RetNone]
  ELSE IF q.status[q.head] # "live" THEN [q EXCEPT !.ub = "use_after_free"]
  ELSE [q EXCEPT !.head = q.node[q.head].next,
                 !.status[q.head] = "freed",
                 !.node[q.head] = FifthGarbage,
                 !.ret = RetSome(q.node[q.head].elem)]

Pop(q) ==
  IF q.head = NULL THEN [q EXCEPT !.ret = RetNone]
  ELSE IF q.status[q.head] # "live" THEN [q EXCEPT !.ub = "use_after_free"]
  ELSE LET h == q.node[q.head]
           q1 == [q EXCEPT !.head = h.next]
           q2 == IF q1.head = NULL THEN [q1 EXCEPT !.tail = NULL] ELSE q1
       IN [q2 EXCEPT !.status[q.head] = "freed",
                     !.node[q.head] = FifthGarbage,
                     !.ret = RetSome(h.elem)]

Peek(q) ==
  IF q.head = NULL THEN [q EXCEPT !.ret = RetNone]
  ELSE IF q.status[q.head] # "live" THEN [q EXCEPT !.ub = "use_after_free"]
  ELSE [q EXCEPT !.ret = RetSome(q.node[q.head].elem)]

\* A call that runs into undefined behaviour keeps the state before the call.
FifthCommit(q) ==
  /\ IF q.ub # "none"
     THEN /\ ub' = q.ub
          /\ UNCHANGED << fifthVars, ret >>
     ELSE /\ head' = q.head
          /\ tail' = q.tail
          /\ fifth_node' = q.node
          /\ fifth_status' = q.status
          /\ ub' = q.ub
          /\ ret' = q.ret
  /\ UNCHANGED << node, status, list, alive, cursor, iter, panicked, damaged,
                  overflow_checks, threadVars >>

push(elem) ==
  /\ ub = "none"
  /\ FifthCanAlloc
  /\ FifthCommit(Push(Fifth, elem))

pop ==
  /\ ub = "none"
  /\ FifthCommit(Pop(Fifth))

peek ==
  /\ ub = "none"
  /\ FifthCommit(Peek(Fifth))

----------------------------------------------------------------------------
(* The Send and Sync impls: which thread may hold what *)

\* unsafe impl<T: Send> Send for LinkedList<T>, and so on: the bound each impl
\* puts on the element type T.
LinkedList_Send(T) == T.send
LinkedList_Sync(T) == T.sync
Iter_Send(T) == T.send
Iter_Sync(T) == T.sync
IterMut_Send(T) == T.send
IterMut_Sync(T) == T.sync

IsSend(h, T) == CASE h = "LinkedList" -> LinkedList_Send(T)
                  [] h = "Iter" -> Iter_Send(T)
                  [] h = "IterMut" -> IterMut_Send(T)

IsSync(h, T) == CASE h = "LinkedList" -> LinkedList_Sync(T)
                  [] h = "Iter" -> Iter_Sync(T)
                  [] h = "IterMut" -> IterMut_Sync(T)

\* A value that is borrowed cannot be moved or dropped: the list while an
\* iterator or a shared reference to it exists, an iterator while a shared
\* reference to it exists.
Borrowed(h) ==
  \/ borrowers[h] # {}
  \/ /\ h = "LinkedList"
     /\ (owner["Iter"] # NoThread \/ owner["IterMut"] # NoThread)

\* Thread t can obtain a &T to an element: through the list it owns (unless
\* an IterMut has it exclusively), through a &LinkedList, or through an
\* iterator it owns (next takes &mut self, so a shared reference to an
\* iterator yields nothing).
ReadsElems(t) ==
  \/ owner["LinkedList"] = t /\ owner["IterMut"] = NoThread
  \/ t \in borrowers["LinkedList"]
  \/ owner["Iter"] = t
  \/ owner["IterMut"] = t

\* Thread t can obtain a T or a &mut T: through the list it owns while there
\* is no borrow of it, or through an IterMut it owns.
OwnsElems(t) ==
  \/ owner["LinkedList"] = t /\ ~Borrowed("LinkedList")
  \/ owner["IterMut"] = t

ThreadStep ==
  UNCHANGED << node, status, list, alive, cursor, iter, ub, panicked, ret,
               damaged, overflow_checks, fifthVars, elem_type >>

\* LinkedList::new and the pushes, on the main thread.
handle_new ==
  /\ owner["LinkedList"] = NoThread
  /\ owner' = [owner EXCEPT !["LinkedList"] = Main]
  /\ UNCHANGED borrowers
  /\ ThreadStep

\* (&list).into_iter() by a thread that owns the list or holds a &LinkedList.
handle_iter(t) ==
  /\ owner["LinkedList"] # NoThread
  /\ owner["LinkedList"] = t \/ t \in borrowers["LinkedList"]
  /\ owner["Iter"] = NoThread
  /\ owner["IterMut"] = NoThread
  /\ owner' = [owner EXCEPT !["Iter"] = t]
  /\ UNCHANGED borrowers
  /\ ThreadStep

\* (&mut list).into_iter() by the thread that owns the list.
handle_iter_mut(t) ==
  /\ owner["LinkedList"] = t
  /\ ~Borrowed("LinkedList")
  /\ owner' = [owner EXCEPT !["IterMut"] = t]
  /\ UNCHANGED borrowers
  /\ ThreadStep

handle_drop(h) ==
  /\ owner[h] # NoThread
  /\ ~Borrowed(h)
  /\ owner' = [owner EXCEPT ![h] = NoThread]
  /\ UNCHANGED borrowers
  /\ ThreadStep

\* The value is moved to thread t (a closure that captures it by move, a
\* channel): it compiles when the type is Send.
send(h, t) ==
  /\ owner[h] \notin {NoThread, t}
  /\ ~Borrowed(h)
  /\ IsSend(h, elem_type)
  /\ owner' = [owner EXCEPT ![h] = t]
  /\ UNCHANGED borrowers
  /\ ThreadStep

\* Thread t is handed a shared reference to the value (a scoped thread that
\* captures it by reference): it compiles when the type is Sync.
share(h, t) ==
  /\ owner[h] \notin {NoThread, t}
  /\ t \notin borrowers[h]
  /\ h = "LinkedList" => owner["IterMut"] = NoThread
  /\ IsSync(h, elem_type)
  /\ borrowers' = [borrowers EXCEPT ![h] = @ \cup {t}]
  /\ UNCHANGED owner
  /\ ThreadStep

\* The thread that held the shared reference ends.
unshare(h, t) ==
  /\ t \in borrowers[h]
  /\ h = "LinkedList" => owner["Iter"] # t
  /\ borrowers' = [borrowers EXCEPT ![h] = @ \ {t}]
  /\ UNCHANGED owner
  /\ ThreadStep

----------------------------------------------------------------------------
(* Specifications *)

\* No LinkedList exists yet and nothing was called.
NoLists ==
  /\ node = [n \in Nodes |-> Garbage]
  /\ status = [n \in Nodes |-> "unalloc"]
  /\ list = [l \in Lists |-> EmptyList]
  /\ alive = [l \in Lists |-> FALSE]
  /\ cursor = NoCursor
  /\ iter = NoIter
  /\ ub = "none"
  /\ panicked = FALSE
  /\ ret = RetUnit
  /\ damaged = 0
  /\ overflow_checks \in BOOLEAN

\* fifth::List::new
FifthNew ==
  /\ head = NULL
  /\ tail = NULL
  /\ fifth_node = [n \in Nodes |-> FifthGarbage]
  /\ fifth_status = [n \in Nodes |-> "unalloc"]

\* No thread holds a list or an iterator.
NoHandles ==
  /\ owner = [h \in Handles |-> NoThread]
  /\ borrowers = [h \in Handles |-> {}]

\* The lists of the tests hold integers.
Init == NoLists /\ FifthNew /\ elem_type = I32 /\ NoHandles

\* Lists used through push and pop only.
NextDeque ==
  \/ \E l \in Lists : new(l)
  \/ \E l \in Lists, e \in Elems : push_front(l, e)
  \/ \E l \in Lists, e \in Elems : push_back(l, e)
  \/ \E l \in Lists : pop_front(l)
  \/ \E l \in Lists : pop_back(l)

SpecDeque == Init /\ [][NextDeque]_vars

\* The calls of LinkedList and CursorMut that build, change, split and join
\* lists.  The iterators, the comparisons and clone are followed in the
\* specifications after it.
Next ==
  \/ \E l \in Lists : new(l)
  \/ \E l \in Lists, e \in Elems : push_front(l, e)
  \/ \E l \in Lists, e \in Elems : push_back(l, e)
  \/ \E l \in Lists : pop_front(l)
  \/ \E l \in Lists : pop_back(l)
  \/ \E l \in Lists : clear(l)
  \/ \E l \in Lists : drop(l)
  \/ \E l \in Lists : cursor_mut(l)
  \/ cursor_end
  \/ move_next
  \/ move_prev
  \/ current
  \/ peek_next
  \/ peek_prev
  \/ split_before
  \/ split_after
  \/ splice_before
  \/ splice_after

Spec == Init /\ [][Next]_vars

\* The current node has a node before it, or after it.
HasPrev == cursor.cur # NULL /\ node[cursor.cur].front # NULL
HasNext == cursor.cur # NULL /\ node[cursor.cur].back # NULL

\* The two list slots are alike, so in the narrower specifications below the
\* cursor is always bound to slot a.

\* Lists built by push, one of them walked and read through a cursor.
NextCursor ==
  \/ \E l \in Lists : new(l)
  \/ \E l \in Lists, e \in Elems : push_front(l, e)
  \/ \E l \in Lists, e \in Elems : push_back(l, e)
  \/ cursor_mut("a")
  \/ cursor_end
  \/ move_next
  \/ move_prev
  \/ current
  \/ peek_next
  \/ peek_prev

SpecCursor == Init /\ [][NextCursor]_vars

\* A list built by push, split and spliced through a cursor by a caller that
\* splits at the ghost or strictly inside the chain: never before the first
\* node and never after the last one.  The lists the splits return are
\* pushed to, spliced back or dropped.
NextInner ==
  \/ new("a")
  \/ \E l \in Lists, e \in Elems : push_front(l, e)
  \/ \E l \in Lists, e \in Elems : push_back(l, e)
  \/ \E l \in Lists : drop(l)
  \/ cursor_mut("a")
  \/ cursor_end
  \/ move_next
  \/ move_prev
  \/ (cursor.cur = NULL \/ HasPrev) /\ split_before
  \/ (cursor.cur = NULL \/ HasNext) /\ split_after
  \/ splice_before
  \/ splice_after

SpecInner == Init /\ [][NextInner]_vars

\* Lists are built by push while no cursor is live; while one is live, only
\* cursor operations are called (on lists the cursor itself handed out).
NextCursorOnly ==
  \/ ~cursor.live /\ \E l \in Lists : new(l)
  \/ ~cursor.live /\ \E l \in Lists, e \in Elems : push_front(l, e)
  \/ ~cursor.live /\ \E l \in Lists, e \in Elems : push_back(l, e)
  \/ ~cursor.live /\ \E l \in Lists : cursor_mut(l)
  \/ cursor_end
  \/ move_next
  \/ move_prev
  \/ split_before
  \/ split_after
  \/ splice_before
  \/ splice_after

SpecCursorOnly == Init /\ [][NextCursorOnly]_vars

\* A list built by push and walked from both ends by an Iter or an IterMut,
\* or consumed from both ends by an IntoIter.
NextIter ==
  \/ new("a")
  \/ \E e \in Elems : push_front("a", e)
  \/ \E e \in Elems : push_back("a", e)
  \/ \E k \in IterKinds : iter_new("a", k)
  \/ iter_next
  \/ iter_next_back
  \/ iter_size_hint
  \/ iter_len
  \/ iter_end
  \/ into_iter("a")
  \/ into_iter_next
  \/ into_iter_next_back
  \/ into_iter_size_hint
  \/ into_iter_len
  \/ into_iter_drop

SpecIter == Init /\ [][NextIter]_vars

\* Two lists of integers, or of floats with NaN among them, built one after
\* the other by push_back, then compared with each other and with themselves,
\* and hashed.
NextCompare ==
  \/ new("a")
  \/ alive["a"] /\ new("b")
  \/ ~alive["b"] /\ \E e \in Floats : push_back("a", e)
  \/ \E e \in Floats : push_back("b", e)
  \/ \E a, b \in Lists : list_eq(a, b)
  \/ \E a, b \in Lists : list_ne(a, b)
  \/ \E a, b \in Lists : list_lt(a, b)
  \/ \E a, b \in Lists : list_le(a, b)
  \/ \E a, b \in Lists : list_gt(a, b)
  \/ \E a, b \in Lists : list_ge(a, b)
  \/ \E a, b \in Lists : list_partial_cmp(a, b)
  \/ \E a, b \in Lists : list_cmp(a, b)
  \/ \E l \in Lists : list_hash(l)

SpecCompare == Init /\ [][NextCompare]_vars

\* A list built by push and pop, cloned, and then either list pushed to,
\* popped from, cleared or dropped.  The second list is always a clone.
NextClone ==
  \/ new("a")
  \/ \E l \in Lists, e \in Elems : push_front(l, e)
  \/ \E l \in Lists, e \in Elems : push_back(l, e)
  \/ \E l \in Lists : pop_front(l)
  \/ \E l \in Lists : pop_back(l)
  \/ \E l \in Lists : clear(l)
  \/ \E l \in Lists : drop(l)
  \/ clone("a")

SpecClone == Init /\ [][NextClone]_vars

\* Lists made by new and from_iter and grown by extend only.
NextExtend ==
  \/ \E l \in Lists : new(l)
  \/ \E l \in Lists, t \in Inputs : from_iter(l, t)
  \/ \E l \in Lists, t \in Inputs : extend(l, t)

SpecExtend == Init /\ [][NextExtend]_vars

\* A list built by push and pop, peeked at and written to at both ends.
NextPeek ==
  \/ new("a")
  \/ \E e \in Elems : push_front("a", e)
  \/ \E e \in Elems : push_back("a", e)
  \/ pop_front("a")
  \/ pop_back("a")
  \/ front("a")
  \/ back("a")
  \/ \E e \in Elems : front_mut("a", e)
  \/ \E e \in Elems : back_mut("a", e)

SpecPeek == Init /\ [][NextPeek]_vars

\* Lists built by push_back, one of them walked forward by a cursor that
\* splices the other one in.
NextExample ==
  \/ \E l \in Lists : new(l)
  \/ \E l \in Lists, e \in Elems : push_back(l, e)
  \/ cursor_mut("a")
  \/ move_next
  \/ splice_before
  \/ splice_after

SpecExample == Init /\ [][NextExample]_vars

\* Lists built by push_back, then one of them cut and joined through a
\* cursor, at every position, the ends included.
NextFrame ==
  \/ ~cursor.live /\ \E l \in Lists : new(l)
  \/ ~cursor.live /\ \E l \in Lists, e \in Elems : push_back(l, e)
  \/ ~cursor.live /\ cursor_mut("a")
  \/ move_next
  \/ split_before
  \/ split_after
  \/ splice_before
  \/ splice_after

SpecFrame == Init /\ [][NextFrame]_vars

\* The queue of fifth.rs.
NextFifth ==
  \/ \E e \in Elems : push(e)
  \/ pop
  \/ peek

SpecFifth == Init /\ [][NextFifth]_vars

\* A list of any element type and its iterators, moved and shared between
\* threads as far as the Send and Sync impls let the program compile.
InitThreads == NoLists /\ FifthNew /\ elem_type \in ElemTypes /\ NoHandles

NextThreads ==
  \/ handle_new
  \/ \E t \in Threads : handle_iter(t)
  \/ \E t \in Threads : handle_iter_mut(t)
  \/ \E h \in Handles : handle_drop(h)
  \/ \E h \in Handles, t \in Threads : send(h, t)
  \/ \E h \in Handles, t \in Threads : share(h, t)
  \/ \E h \in Handles, t \in Threads : unshare(h, t)

SpecThreads == InitThreads /\ [][NextThreads]_vars

----------------------------------------------------------------------------
(* Observations of the current state *)

FwdNodes(l) == WalkNext(World, list[l].front, MaxNodes + 1)
BwdNodes(l) == WalkPrev(World, list[l].back, MaxNodes + 1)

\* Every node list l can get at, from front or back through the links.
Reach(l) == Range(FwdNodes(l)) \cup Range(BwdNodes(l))

Sound == SoundIn(World)

Freed(n) == n # NULL /\ status[n] = "freed"

AllDropped == \A l \in Lists : ~alive[l]

----------------------------------------------------------------------------
(* Memory safety and the invariants of the data model *)

\* C1: under any sequence of calls no node is freed twice, and no live list,
\* no link of a live node and no cursor references a node that has been freed.
C1_NoDoubleFreeNoDangling ==
  /\ ub = "none"
  /\ \A l \in Lists : alive[l] => ~Freed(list[l].front) /\ ~Freed(list[l].back)
  /\ \A n \in Nodes : status[n] = "live" =>
       ~Freed(node[n].front) /\ ~Freed(node[n].back)
  /\ cursor.live => ~Freed(cursor.cur)

\* C2: no node is reachable from two different live lists, and no chain
\* contains a cycle (a walk from front or from back meets no node twice).
C2_NoSharedNodeNoCycle ==
  /\ (alive["a"] /\ alive["b"]) => Reach("a") \cap Reach("b") = {}
  /\ \A l \in Lists : alive[l] => NoDup(FwdNodes(l)) /\ NoDup(BwdNodes(l))

\* C4: for every live list, front is absent iff back is absent iff len = 0.
C4_FrontBackLenAgree ==
  \A l \in Lists : alive[l] =>
    /\ (list[l].front = NULL) = (list[l].back = NULL)
    /\ (list[l].back = NULL) = (list[l].len = 0)

\* C5: for every live list, following next links from front visits exactly
\* len nodes and ends at back, and following prev links from back visits the
\* same nodes in reverse order and ends at front.
C5_ChainMatchesLen ==
  \A l \in Lists : alive[l] =>
    LET f == FwdNodes(l)
        b == BwdNodes(l)
    IN /\ Len(f) = list[l].len
       /\ list[l].back = IF Len(f) = 0 THEN NULL ELSE f[Len(f)]
       /\ b = Reverse(f)
       /\ list[l].front = IF Len(b) = 0 THEN NULL ELSE b[Len(b)]

\* C6: in every live list's chain, a node's next link B has A as its prev
\* link; the front node has no prev link and the back node no next link.
C6_LinksMutual ==
  \A l \in Lists : alive[l] =>
    /\ \A n \in Range(FwdNodes(l)) :
         (status[n] = "live" /\ node[n].back # NULL
          /\ status[node[n].back] = "live") =>
           node[node[n].back].front = n
    /\ (list[l].front # NULL /\ status[list[l].front] = "live") =>
         node[list[l].front].front = NULL
    /\ (list[l].back # NULL /\ status[list[l].back] = "live") =>
         node[list[l].back].back = NULL

NewlyFreed == {n \in Nodes : status[n] = "live" /\ status'[n] = "freed"}

\* C3: every node is freed exactly once: a pop frees exactly the popped node,
\* a clear or drop of a well-formed list exactly the nodes of its chain, no
\* node is freed a second time, and once all lists are dropped no allocated node remains.
C3_FreedExactlyOnce ==
  [][/\ ub' # "double_free"
     /\ AllDropped' => \A n \in Nodes : status'[n] # "live"
     /\ \A l \in Lists :
          /\ (pop_front(l) /\ ub' = "none") =>
               NewlyFreed = {list[l].front} \ {NULL}
          /\ (pop_back(l) /\ ub' = "none") =>
               NewlyFreed = {list[l].back} \ {NULL}
          /\ ((clear(l) \/ drop(l)) /\ Sound /\ ub' = "none") =>
               NewlyFreed = Range(FwdNodes(l))]_vars

----------------------------------------------------------------------------
(* The deque against an abstract sequence *)

Contents(l) == IterCollect(World, l)

Quiet == ub = "none" /\ ~panicked

\* The step was a call that returned r, panicked or was undefined: every
\* step of a call whose result is r is such a step.
Returned(r) == ret' = r \/ panicked' \/ ub' # "none"

\* The same for a call that returns an Option<&mut T>.
ReturnedOption == ret'.tag \in {"some", "none"} \/ panicked' \/ ub' # "none"

\* C7: under push_front, push_back, pop_front and pop_back a list refines a
\* sequence: a push prepends or appends its element, a pop returns and removes
\* the first or last element, forward iteration yields the sequence and len
\* is its length; the other list is not touched.
C7_RefinesSequence ==
  [][\A l \in Lists :
       LET s == Contents(l)
           n == Len(s)
       IN /\ \A e \in Elems :
               push_front(l, e) =>
                 /\ Contents(l)' = << e >> \o s
                 /\ list'[l].len = n + 1
                 /\ Contents(Other(l))' = Contents(Other(l))
                 /\ Quiet'
          /\ \A e \in Elems :
               push_back(l, e) =>
                 /\ Contents(l)' = s \o << e >>
                 /\ list'[l].len = n + 1
                 /\ Contents(Other(l))' = Contents(Other(l))
                 /\ Quiet'
          /\ (pop_front(l) /\ n > 0) =>
               /\ ret' = RetSome(s[1])
               /\ Contents(l)' = SubSeq(s, 2, n)
               /\ list'[l].len = n - 1
               /\ Contents(Other(l))' = Contents(Other(l))
               /\ Quiet'
          /\ (pop_back(l) /\ n > 0) =>
               /\ ret' = RetSome(s[n])
               /\ Contents(l)' = SubSeq(s, 1, n - 1)
               /\ list'[l].len = n - 1
               /\ Contents(Other(l))' = Contents(Other(l))
               /\ Quiet'
          /\ ((pop_front(l) \/ pop_back(l)) /\ n = 0) =>
               /\ ret' = RetNone
               /\ Contents(l)' = << >>
               /\ list'[l].len = 0
               /\ Quiet']_vars

\* A pop has returned the first of three pushed elements.
C7_Witness ==
  \E l \in Lists :
    /\ alive[l]
    /\ Contents(l) = << 2, 1 >>
    /\ list[l].len = 2
    /\ ret = RetSome(1)

\* C8: pop_front and pop_back on an empty list return no value, without a
\* panic, and leave the list empty (front absent, back absent, len 0) and the
\* heap as it was.
C8_PopEmpty ==
  [][\A l \in Lists :
       ((pop_front(l) \/ pop_back(l)) /\ list[l].len = 0) =>
         /\ ret' = RetNone
         /\ Quiet'
         /\ list'[l] = EmptyList
         /\ list' = list
         /\ node' = node
         /\ status' = status]_vars

\* A pop found the list empty after earlier pops had freed its nodes.
C8_Witness ==
  /\ ret = RetNone
  /\ \E l \in Lists : alive[l] /\ list[l] = EmptyList
  /\ \A l \in Lists : list[l] = EmptyList
  /\ \E n \in Nodes : status[n] = "freed"

----------------------------------------------------------------------------
(* Splits *)

\* List l is alive and holds exactly the nodes s in the next state: its chain
\* from front is s, its chain from back is s reversed, its len is Len(s).
HoldsNext(l, s) ==
  /\ alive'[l]
  /\ FwdNodes(l)' = s
  /\ BwdNodes(l)' = Reverse(s)
  /\ list'[l].len = Len(s)

ElemsKept == \A n \in Nodes : status[n] = "live" => node'[n].elem = node[n].elem

\* C9: split_before at At(node, i), for every i from 0 to len - 1, returns a
\* list holding exactly the i nodes before node, in order, with len i; the
\* bound list keeps node and what follows, node as its front, with len
\* old_len - i; the cursor stays on node with index 0.
C9_SplitBefore ==
  [][\A L \in Lists :
       (split_before /\ Sound /\ cursor.list = L /\ cursor.cur # NULL) =>
         LET f == FwdNodes(L)
             i == cursor.index[1]
         IN /\ Quiet'
            /\ HoldsNext(Other(L), SubSeq(f, 1, i))
            /\ HoldsNext(L, SubSeq(f, i + 1, Len(f)))
            /\ list'[L].front = cursor.cur
            /\ cursor' = [cursor EXCEPT !.index = Some(0)]
            /\ ElemsKept]_vars

\* C10: split_after at At(node, i), for every i from 0 to len - 1, returns a
\* list holding exactly the nodes after node, in order, with len
\* old_len - i - 1; the bound list keeps front through node, node as its
\* back, with len i + 1; the cursor stays on node with index i.
C10_SplitAfter ==
  [][\A L \in Lists :
       (split_after /\ Sound /\ cursor.list = L /\ cursor.cur # NULL) =>
         LET f == FwdNodes(L)
             i == cursor.index[1]
         IN /\ Quiet'
            /\ HoldsNext(Other(L), SubSeq(f, i + 2, Len(f)))
            /\ HoldsNext(L, SubSeq(f, 1, i + 1))
            /\ list'[L].back = cursor.cur
            /\ cursor' = cursor
            /\ ElemsKept]_vars

\* C11: split_before and split_after with the cursor at the ghost each return
\* a list holding the entire former contents (same nodes, same order, same
\* len) and leave the bound list empty (front absent, back absent, len 0),
\* with the cursor still at the ghost and no index.
C11_SplitAtGhost ==
  [][\A L \in Lists :
       (/\ cursor.live /\ cursor.list = L /\ cursor.cur = NULL
        /\ Returned(RetList)
        /\ split_before \/ split_after
        /\ Sound) =>
         /\ Quiet'
         /\ ret' = RetList
         /\ HoldsNext(Other(L), FwdNodes(L))
         /\ Contents(Other(L))' = Contents(L)
         /\ alive'[L]
         /\ list'[L] = [front |-> NULL, back |-> NULL, len |-> 0]
         /\ cursor' = cursor
         /\ cursor'.cur = NULL /\ cursor'.index = None
         /\ node' = node /\ status' = status]_vars

\* A split at the ghost has just returned a list of two elements and left
\* the bound list empty.
C11_Witness ==
  /\ ret = RetList
  /\ cursor.live /\ cursor.cur = NULL /\ cursor.index = None
  /\ alive[cursor.list] /\ list[cursor.list] = EmptyList
  /\ alive[Other(cursor.list)]
  /\ list[Other(cursor.list)].len = 2
  /\ Len(Contents(Other(cursor.list))) = 2

----------------------------------------------------------------------------
(* Ownership of the lists a cursor hands out and takes in *)

\* A call on list l that needs no cursor.
ListCall(l) ==
  \/ \E e \in Elems : push_front(l, e) \/ push_back(l, e)
  \/ pop_front(l)
  \/ pop_back(l)
  \/ clear(l)
  \/ drop(l)

\* List l, the nodes it can get at and the cursor are in the next state what
\* they are now.
Untouched(l) ==
  /\ alive'[l] = alive[l]
  /\ list'[l] = list[l]
  /\ \A n \in Reach(l) : node'[n] = node[n] /\ status'[n] = status[n]
  /\ cursor' = cursor

\* C12: a list returned by split_before or split_after and the list it was
\* split from are independently owned, wherever the cursor stood (first and
\* last node included): a push_front, push_back, pop_front, pop_back, clear or
\* drop on either of them is defined and leaves the other one's elements,
\* links and len unchanged.  (A second list next to a list is one made by new
\* or one returned by a split; the statement is made for every pair of lists.)
C12_SplitResultIndependent ==
  [][\A l \in Lists :
       (ListCall(l) /\ alive[Other(l)]) =>
         /\ ub' = "none"
         /\ Untouched(Other(l))]_vars

----------------------------------------------------------------------------
(* Splices *)

\* s with t inserted after its first k members.
InsertAt(s, k, t) == SubSeq(s, 1, k) \o t \o SubSeq(s, k + 1, Len(s))

C14_SpliceAtGhost ==
  [][\A L \in Lists :
       LET I == Other(L)
           f == FwdNodes(L)
           g == FwdNodes(I)
           AtGhost == /\ cursor.live /\ cursor.list = L /\ cursor.cur = NULL
                      /\ Returned(RetSpliced)
           Frame == /\ Quiet'
                    /\ list'[L].len = list[L].len + list[I].len
                    /\ list[L].len = 0 => list'[L] = list[I]
                    /\ cursor' = cursor
                    /\ cursor'.cur = NULL /\ cursor'.index = None
                    /\ ElemsKept /\ status' = status
       IN /\ (AtGhost /\ splice_before /\ Sound) =>
               /\ HoldsNext(L, f \o g)
               /\ Contents(L)' = Contents(L) \o Contents(I)
               /\ Frame
          /\ (AtGhost /\ splice_after /\ Sound) =>
               /\ HoldsNext(L, g \o f)
               /\ Contents(L)' = Contents(I) \o Contents(L)
               /\ Frame]_vars

\* A splice at the ghost has just made a list of three nodes.
C14_Witness ==
  /\ ret = RetSpliced
  /\ cursor.live /\ cursor.cur = NULL /\ cursor.index = None
  /\ list[cursor.list].len = 3
  /\ Len(FwdNodes(cursor.list)) = 3
  /\ ~alive[Other(cursor.list)]

\* C15: for every list passed to splice_before or splice_after (any list a
\* caller can get, one returned by a split included) the call is defined and
\* does not panic, afterwards the bound list's nodes are exactly its former
\* nodes and the input's nodes, the input is gone, and the drop of the input
\* at the end of the call has freed no node.
C15_SpliceTakesOwnership ==
  [][\A L \in Lists :
       ((splice_before \/ splice_after) /\ cursor.list = L) =>
         /\ Quiet'
         /\ Range(FwdNodes(L))' =
              Range(FwdNodes(L)) \cup Range(FwdNodes(Other(L)))
         /\ ~alive'[Other(L)]
         /\ NewlyFreed = {}]_vars

\* C16: splicing an empty list (front absent, back absent, len 0) with
\* splice_before or splice_after, at the ghost or at a node of any bound list,
\* changes nothing: the bound list's elements, links and len and the cursor's
\* position and index are what they were, and nothing panics.
C16_SpliceEmpty ==
  [][\A L \in Lists :
       (/\ cursor.live /\ cursor.list = L /\ list[Other(L)] = EmptyList
        /\ Returned(RetSpliced)
        /\ splice_before \/ splice_after) =>
         /\ Quiet'
         /\ list'[L] = list[L]
         /\ Contents(L)' = Contents(L)
         /\ cursor' = cursor
         /\ node' = node /\ status' = status]_vars

\* A splice has returned with the cursor on the only node of its list, at
\* index 0: nothing was put before or after that node.
C16_Witness ==
  /\ ret = RetSpliced
  /\ cursor.live /\ cursor.cur # NULL /\ cursor.index = Some(0)
  /\ list[cursor.list] = [front |-> cursor.cur, back |-> cursor.cur, len |-> 1]
  /\ FwdNodes(cursor.list) = << cursor.cur >>

----------------------------------------------------------------------------
(* Split, then splice the result back *)

\* World w shows the list, the elements, the cursor and the live nodes of
\* the current state, and was reached without undefined behaviour or panic.
Restored(w) ==
  /\ w.ub = "none" /\ ~w.panicked
  /\ IterCollect(w, cursor.list) = Contents(cursor.list)
  /\ w.list[cursor.list].len = list[cursor.list].len
  /\ w.cursor = cursor
  /\ w.status = status

\* C17: for every list and every cursor position At(node, i), 0 <= i < len,
\* split_before followed at once by splice_before of the returned list, and
\* split_after followed at once by splice_after of the returned list, each
\* give back the original element sequence, the original len and the cursor
\* index i, with the same live nodes as before (none freed, none leaked).
C17_SplitSpliceRoundTrip ==
  (/\ ub = "none" /\ Sound
   /\ cursor.live /\ cursor.cur # NULL /\ ~alive[Other(cursor.list)]) =>
    /\ Restored(SpliceBefore(SplitBefore(World)))
    /\ Restored(SpliceAfter(SplitAfter(World)))

----------------------------------------------------------------------------
(* The cursor *)

\* The cursor is the ghost with no index, or sits on a live node of its
\* list's chain with that node's position, counted from front, as index.
CursorIndexOk ==
  IF cursor.cur = NULL THEN cursor.index = None
  ELSE /\ status[cursor.cur] = "live"
       /\ CursorOk(World, FwdNodes(cursor.list))

\* C18: after any sequence of cursor operations (move_next, move_prev,
\* split_before, split_after, splice_before, splice_after) the calls made are
\* defined, the cursor's index is absent exactly when the cursor is at the
\* ghost and is otherwise the position (from 0, counted from front) of the
\* current node in the bound list; splice_before adds the spliced count to
\* the index and splice_after leaves it unchanged.
C18_IndexIsPosition ==
  /\ [](ub = "none" /\ (cursor.live => CursorIndexOk))
  /\ [][/\ (splice_before /\ cursor.index # None) =>
            cursor'.index = Some(cursor.index[1] + list[Other(cursor.list)].len)
        /\ splice_after => cursor'.index = cursor.index]_vars

\* C19: move_next from the ghost goes to At(front, 0) if the list is not
\* empty and stays at the ghost otherwise; from At(node, i) it goes to
\* At(next, i + 1) if node has a next and to the ghost otherwise.  move_prev
\* from the ghost goes to At(back, len - 1) if the list is not empty and stays
\* otherwise; from At(node, i) it goes to At(prev, i - 1) if node has a prev
\* and to the ghost otherwise.  A move never changes a list or a node.
C19_MoveTable ==
  [][\A L \in Lists :
       LET i == cursor.index[1]
           Bound == cursor.live /\ cursor.list = L /\ Returned(RetUnit)
           To(n, k) == cursor' = [cursor EXCEPT !.cur = n, !.index = k]
           Frame == /\ Quiet'
                    /\ list' = list /\ alive' = alive
                    /\ node' = node /\ status' = status
       IN /\ (Bound /\ move_next /\ Sound) =>
               /\ Frame
               /\ IF cursor.cur = NULL
                  THEN IF list[L].front # NULL
                       THEN To(list[L].front, Some(0))
                       ELSE To(NULL, None)
                  ELSE IF node[cursor.cur].back # NULL
                       THEN To(node[cursor.cur].back, Some(i + 1))
                       ELSE To(NULL, None)
          /\ (Bound /\ move_prev /\ Sound) =>
               /\ Frame
               /\ IF cursor.cur = NULL
                  THEN IF list[L].back # NULL
                       THEN To(list[L].back, Some(list[L].len - 1))
                       ELSE To(NULL, None)
                  ELSE IF node[cursor.cur].front # NULL
                       THEN To(node[cursor.cur].front, Some(i - 1))
                       ELSE To(NULL, None)]_vars

\* A move has put the cursor on the back node of a list of three, with
\* index 2 (the other list does not exist, so the last call was a move).
C19_Witness ==
  /\ ret = RetUnit
  /\ cursor.live /\ ~alive[Other(cursor.list)]
  /\ list[cursor.list].len = 3
  /\ cursor.cur = list[cursor.list].back
  /\ cursor.index = Some(2)

\* C20: current, peek_next and peek_prev never move the cursor and never
\* change a list or a node; current is absent exactly at the ghost; in every
\* cursor state peek_next returns the element current would return after one
\* move_next and peek_prev the one it would return after one move_prev (from
\* the ghost: the list's front and back element; past either end: no value).
C20_PeekIsMoveThenCurrent ==
  [][\A L \in Lists :
       LET s == Contents(L)
           Bound == cursor.live /\ cursor.list = L /\ ReturnedOption
           Frame == /\ Quiet'
                    /\ cursor' = cursor
                    /\ list' = list /\ alive' = alive
                    /\ node' = node /\ status' = status
       IN /\ (Bound /\ current /\ Sound) =>
               /\ Frame
               /\ (ret' = RetNone) = (cursor.cur = NULL)
               /\ cursor.cur # NULL => ret' = RetSome(node[cursor.cur].elem)
          /\ (Bound /\ peek_next /\ Sound) =>
               /\ Frame
               /\ ret' = Current(MoveNext(World)).ret
               /\ cursor.cur = NULL =>
                    ret' = IF s = << >> THEN RetNone ELSE RetSome(s[1])
               /\ cursor.cur = list[L].back => ret' = RetNone
          /\ (Bound /\ peek_prev /\ Sound) =>
               /\ Frame
               /\ ret' = Current(MovePrev(World)).ret
               /\ cursor.cur = NULL =>
                    ret' = IF s = << >> THEN RetNone ELSE RetSome(s[Len(s)])
               /\ cursor.cur = list[L].front => ret' = RetNone]_vars

\* From the ghost of the list 1, 2 a peek has returned 2, the back element.
C20_Witness ==
  /\ ret = RetSome(2)
  /\ cursor.live /\ cursor.cur = NULL
  /\ ~alive[Other(cursor.list)]
  /\ Contents(cursor.list) = << 1, 2 >>

----------------------------------------------------------------------------
(* Iterators *)

ContentsBack(l) == IterCollectBack(World, l)

\* C21: for every list that any sequence of push, pop, split and splice calls
\* leaves alive, the elements of a fully consumed forward iteration are exactly
\* the reverse of the elements of a fully consumed backward iteration.
C21_ForwardIsReverseOfBackward ==
  \A l \in Lists :
    (ub = "none" /\ alive[l]) => Contents(l) = Reverse(ContentsBack(l))

\* Position of node n in chain f.
Pos(f, n) == CHOOSE i \in 1..Len(f) : f[i] = n

\* How many nodes of chain f iterator it has passed from the front, and from
\* the back: it.front is the node after the last one yielded by next, it.back
\* the node before the last one yielded by next_back.
TakenFront(f, it) == IF it.front = NULL THEN Len(f) ELSE Pos(f, it.front) - 1
TakenBack(f, it) == IF it.back = NULL THEN Len(f) ELSE Len(f) - Pos(f, it.back)

\* C22: an Iter or IterMut over a list of n nodes, under any interleaving of
\* next and next_back: with a nodes already yielded from the front and b from
\* the back, a + b <= n and the iterator's len is n - a - b; while a + b < n,
\* next yields the element of node a + 1 and next_back that of node n - b
\* (front to back and back to front, a node neither end has yielded before),
\* and exactly one more node counts as yielded; once a + b = n, both return
\* no value and change nothing.  The list itself is never changed.
C22_DoubleEnded ==
  [][(/\ iter.live /\ iter.kind \in IterKinds
      /\ ReturnedOption
      /\ iter_next \/ iter_next_back
      /\ Sound) =>
     LET l == iter.list
         f == FwdNodes(l)
         n == Len(f)
         a == TakenFront(f, iter)
         b == TakenBack(f, iter)
     IN /\ n = list[l].len /\ a + b <= n /\ iter.len = n - a - b
        /\ Quiet' /\ node' = node /\ status' = status /\ list' = list
        /\ iter'.live /\ iter'.kind = iter.kind /\ iter'.list = l
        /\ IF a + b < n
           THEN /\ iter'.len = iter.len - 1
                /\ iter_next =>
                     /\ ret' = RetSome(node[f[a + 1]].elem)
                     /\ TakenFront(f, iter') = a + 1
                     /\ iter'.back = iter.back
                /\ iter_next_back =>
                     /\ ret' = RetSome(node[f[n - b]].elem)
                     /\ TakenBack(f, iter') = b + 1
                     /\ iter'.front = iter.front
           ELSE ret' = RetNone /\ iter' = iter]_vars

\* An IterMut over a list of at least two nodes has yielded from both ends,
\* is used up, and a further call returned no value.
C22_Witness ==
  /\ iter.live /\ iter.kind = "IterMut"
  /\ list[iter.list].len >= 2
  /\ iter.len = 0 /\ iter.front # NULL /\ iter.back # NULL
  /\ ret = RetNone

\* The nodes the live iterator has not yielded yet: for an Iter or IterMut
\* in state it the nodes of chain f that neither end has passed, for an
\* IntoIter the nodes f still in its list.
RemainingOf(f, it) ==
  IF it.kind \in IterKinds
  THEN Len(f) - TakenFront(f, it) - TakenBack(f, it)
  ELSE Len(f)

Remaining == RemainingOf(FwdNodes(iter.list), iter)

\* The same in the next state.  An Iter or IterMut borrows its list, whose
\* chain stays as it is.
RemainingNext ==
  IF iter.kind \in IterKinds
  THEN IF node' = node /\ list' = list
       THEN RemainingOf(FwdNodes(iter.list), iter') ELSE -1
  ELSE Len(FwdNodes(iter.list)')

IterYield ==
  iter_next \/ iter_next_back \/ into_iter_next \/ into_iter_next_back

\* C23: for Iter, IterMut and IntoIter, with r the number of nodes not yet
\* yielded (the initial length minus the elements yielded from either end):
\* size_hint returns (r, Some(r)) and len returns r, and neither changes r;
\* a next or next_back that yields an element leaves r - 1, and when r is 0
\* it yields nothing and r stays 0; r is never negative.
C23_ExactSize ==
  [][LET r == Remaining
         Same == /\ iter' = iter /\ list' = list /\ node' = node
                 /\ status' = status /\ Quiet'
     IN /\ (/\ iter.live /\ ret'.tag = "size_hint"
            /\ iter_size_hint \/ into_iter_size_hint
            /\ Sound) =>
             r >= 0 /\ ret' = RetSizeHint(r, Some(r)) /\ Same
        /\ (/\ iter.live /\ ret'.tag = "len"
            /\ iter_len \/ into_iter_len
            /\ Sound) =>
             r >= 0 /\ ret' = RetLen(r) /\ Same
        /\ (/\ iter.live /\ ReturnedOption
            /\ IterYield
            /\ Sound) =>
             /\ r >= 0 /\ Quiet'
             /\ IF r > 0 THEN ret'.tag = "some" /\ RemainingNext = r - 1
                ELSE ret' = RetNone /\ RemainingNext = 0]_vars

\* After an Iter over three nodes yielded one from each end, size_hint
\* reported one element left.
C23_Witness ==
  /\ iter.live /\ iter.kind = "Iter"
  /\ list[iter.list].len = 3
  /\ iter.front # list[iter.list].front /\ iter.back # list[iter.list].back
  /\ ret = RetSizeHint(1, Some(1))

\* C24: the consuming iterator's next returns the element of the first node
\* of its list and frees exactly that node, its next_back does the same with
\* the last node, and the list keeps the other nodes in order (what pop_front
\* and pop_back do); once the list is empty both return no value and free
\* nothing; dropping the iterator frees exactly the nodes not yet yielded and
\* the list is gone.  The elements of the nodes that stay are not changed.
C24_IntoIterPops ==
  [][(/\ iter.live /\ iter.kind = "IntoIter"
      /\ ret'.tag \in {"some", "none", "unit"} \/ panicked' \/ ub' # "none"
      /\ into_iter_next \/ into_iter_next_back \/ into_iter_drop
      /\ Sound) =>
     LET l == iter.list
         f == FwdNodes(l)
         n == Len(f)
     IN /\ Quiet'
        /\ \A m \in Nodes :
             status'[m] = "live" => node'[m].elem = node[m].elem
        /\ (ret'.tag = "some" /\ into_iter_next) =>
             /\ n > 0 /\ ret' = RetSome(node[f[1]].elem)
             /\ NewlyFreed = {f[1]}
             /\ HoldsNext(l, Tail(f))
             /\ iter' = iter
        /\ (ret'.tag = "some" /\ into_iter_next_back) =>
             /\ n > 0 /\ ret' = RetSome(node[f[n]].elem)
             /\ NewlyFreed = {f[n]}
             /\ HoldsNext(l, SubSeq(f, 1, n - 1))
             /\ iter' = iter
        /\ ret'.tag = "none" =>
             /\ n = 0 /\ NewlyFreed = {}
             /\ list' = list /\ node' = node /\ iter' = iter
        /\ ret'.tag = "unit" =>
             /\ NewlyFreed = Range(f)
             /\ ~alive'[l] /\ iter' = NoIter]_vars

\* An IntoIter that has yielded an element still holds nodes.
C24_Witness ==
  /\ iter.live /\ iter.kind = "IntoIter"
  /\ ret.tag = "some"
  /\ list[iter.list].len >= 1
  /\ \E n \in Nodes : status[n] = "freed"

----------------------------------------------------------------------------
(* clear and drop *)

\* C25: clear and drop, on any list a caller holds (a list returned by
\* split_before or split_after too), return without a panic or undefined
\* behaviour after freeing exactly len nodes, none of them a node of the
\* other list; clear leaves front absent, back absent and len 0, drop ends
\* the list, so clearing again frees nothing.
C25_ClearFreesOwnNodes ==
  [][\A l \in Lists :
       (alive[l] /\ (clear(l) \/ drop(l))) =>
         /\ Quiet'
         /\ Cardinality(NewlyFreed) = list[l].len
         /\ alive[Other(l)] => NewlyFreed \cap Reach(Other(l)) = {}
         /\ list'[l] = EmptyList
         /\ LET again == Clear(World, l)'
            IN again.status = status' /\ again.list = list'
                 /\ again.ub = "none" /\ ~again.panicked]_vars

----------------------------------------------------------------------------
(* Equality, order and hash *)

\* The elements of list l in forward order, read off its chain.
ElemsOf(l) == LET f == FwdNodes(l) IN [i \in 1..Len(f) |-> node[f[i]].elem]

\* Lists a and b have the same length and pairwise equal elements.
SameElems(a, b) ==
  LET s == ElemsOf(a)
      t == ElemsOf(b)
  IN Len(s) = Len(t) /\ \A i \in 1..Len(s) : ElemEq(s[i], t[i])

\* C26: a == b is true exactly when a and b have the same length and their
\* elements are pairwise equal in forward order (never when the lengths
\* differ), and a != b is its negation, also when an element is not equal to
\* itself.
C26_EqIffSameElems ==
  /\ \A a, b \in Lists :
       (alive[a] /\ alive[b] /\ Sound) =>
         /\ ListEq(World, a, b) = SameElems(a, b)
         /\ list[a].len # list[b].len => ~ListEq(World, a, b)
         /\ ListNe(World, a, b) = ~ListEq(World, a, b)
  /\ ret.tag = "eq" =>
       \E a, b \in Lists : alive[a] /\ alive[b] /\ ret.val = SameElems(a, b)
  /\ ret.tag = "ne" =>
       \E a, b \in Lists : alive[a] /\ alive[b] /\ ret.val = ~SameElems(a, b)

\* != returned true for lists that hold the same elements, a NaN among them.
C26_Witness ==
  /\ ret = RetBool("ne", TRUE)
  /\ alive["a"] /\ alive["b"]
  /\ ElemsOf("a") = ElemsOf("b")
  /\ \E i \in 1..Len(ElemsOf("a")) : ElemsOf("a")[i] = NaN

\* The order of s and t decided lexicographically: by the first position,
\* within both, whose elements do not compare Equal, else by the lengths.
LexOrder(s, t) ==
  LET m == IF Len(s) < Len(t) THEN Len(s) ELSE Len(t)
      D == {i \in 1..m : ElemPartialCmp(s[i], t[i]) # Some("Equal")}
  IN IF D # {}
     THEN LET k == CHOOSE i \in D : \A j \in D : i <= j
          IN ElemPartialCmp(s[k], t[k])
     ELSE IF Len(s) < Len(t) THEN Some("Less")
     ELSE IF Len(s) > Len(t) THEN Some("Greater")
     ELSE Some("Equal")

\* C27: partial_cmp of two lists is lexicographic over forward iteration: the
\* first position whose elements are not equal decides (Less, Greater, or no
\* order when that pair has none); with no such position a proper prefix is
\* Less than the longer list, and lists of the same length are Equal.  For
\* totally ordered elements cmp returns what partial_cmp returns.
C27_Lexicographic ==
  /\ \A a, b \in Lists :
       (alive[a] /\ alive[b] /\ Sound) =>
         LET s == ElemsOf(a)
             t == ElemsOf(b)
         IN /\ ListPartialCmp(World, a, b) = LexOrder(s, t)
            /\ (IsOrd(s) /\ IsOrd(t)) =>
                 /\ Some(ListCmp(World, a, b)) = LexOrder(s, t)
                 /\ Some(ListCmp(World, a, b)) = ListPartialCmp(World, a, b)
  /\ ret.tag = "partial_cmp" =>
       \E a, b \in Lists :
         alive[a] /\ alive[b] /\ ret.val = LexOrder(ElemsOf(a), ElemsOf(b))
  /\ ret.tag = "cmp" =>
       \E a, b \in Lists :
         /\ alive[a] /\ alive[b]
         /\ Some(ret.val) = LexOrder(ElemsOf(a), ElemsOf(b))

\* partial_cmp returned Less for a list against a longer list it is a proper
\* prefix of.
C27_Witness ==
  /\ ret = RetPartialCmp(Some("Less"))
  /\ alive["a"] /\ alive["b"]
  /\ Len(ElemsOf("a")) >= 1 /\ Len(ElemsOf("b")) > Len(ElemsOf("a"))
  /\ ElemsOf("a") = SubSeq(ElemsOf("b"), 1, Len(ElemsOf("a")))
  /\ IsOrd(ElemsOf("b"))

HasNaN(l) == ~IsOrd(ElemsOf(l))

\* None of a < b, a <= b, a > b and a >= b is true.
NoOrderTest(a, b) ==
  /\ ~ListLt(World, a, b) /\ ~ListLe(World, a, b)
  /\ ~ListGt(World, a, b) /\ ~ListGe(World, a, b)

\* C28 as stated: when at least one of two lists holds a NaN, each of <, <=,
\* > and >= between them is false.
C28_NaNAnywhere ==
  \A a, b \in Lists :
    (alive[a] /\ alive[b] /\ Sound /\ (HasNaN(a) \/ HasNaN(b))) =>
      NoOrderTest(a, b)

\* The first position, within both s and t, whose elements are not equal
\* exists and holds a NaN in s or in t.
NaNDecides(s, t) ==
  LET m == IF Len(s) < Len(t) THEN Len(s) ELSE Len(t)
      D == {i \in 1..m : ~ElemEq(s[i], t[i])}
  IN /\ D # {}
     /\ LET k == CHOOSE i \in D : \A j \in D : i <= j
        IN s[k] = NaN \/ t[k] = NaN

\* C28, amended: when the first position at which the elements of the two
\* lists are not equal lies within both lists and holds a NaN in one of them,
\* each of <, <=, > and >= between the lists is false.
C28_NaNAtDecidingPosition ==
  /\ \A a, b \in Lists :
       (/\ alive[a] /\ alive[b] /\ Sound
        /\ NaNDecides(ElemsOf(a), ElemsOf(b))) =>
         NoOrderTest(a, b)
  /\ (/\ ret.tag \in {"lt", "le", "gt", "ge"}
      /\ \A a, b \in Lists :
           (alive[a] /\ alive[b]) => NaNDecides(ElemsOf(a), ElemsOf(b))) =>
       ret.val = FALSE

\* <= returned false with a = [NaN] and b = [1] (b <= b is true, the other
\* three pairs have the NaN at the deciding position).
C28_Witness ==
  /\ ret = RetBool("le", FALSE)
  /\ alive["a"] /\ alive["b"]
  /\ ElemsOf("a") = << NaN >>
  /\ ElemsOf("b") = << 1 >>

\* C29: hash feeds the hasher the length of the list and then every element
\* in forward order, so two lists that compare equal feed the same input.
C29_HashLenThenElems ==
  /\ \A l \in Lists :
       (alive[l] /\ Sound /\ IsOrd(ElemsOf(l))) =>
         /\ ListHash(World, l) = << Len(ElemsOf(l)) >> \o ElemsOf(l)
         /\ \A m \in Lists :
              (alive[m] /\ ListEq(World, l, m)) =>
                ListHash(World, m) = ListHash(World, l)
  /\ ret.tag = "hash" =>
       \E l \in Lists :
         alive[l] /\ ret.val = << Len(ElemsOf(l)) >> \o ElemsOf(l)

\* A list that is not empty was hashed while the other list held the same
\* elements.
C29_Witness ==
  /\ ret.tag = "hash"
  /\ alive["a"] /\ alive["b"]
  /\ Len(ElemsOf("a")) >= 1
  /\ SameElems("a", "b")
  /\ ret.val = << Len(ElemsOf("a")) >> \o ElemsOf("a")

----------------------------------------------------------------------------
(* Clone *)

----------------------------------------------------------------------------
(* extend and from_iter *)

\* C31: extend with input t on a list holding s leaves the list holding s
\* followed by t, on the nodes it had followed by new ones, with len grown by
\* the length of t; an empty input leaves list and heap as they were;
\* from_iter of t returns a list holding exactly t.
C31_ExtendAppends ==
  [][\A l \in Lists :
       /\ (alive[l] /\ ret' = RetUnit /\ Sound) =>
            \A t \in Inputs :
              extend(l, t) =>
                /\ Quiet' /\ damaged' = 0
                /\ ElemsOf(l)' = ElemsOf(l) \o t
                /\ Contents(l)' = Contents(l) \o t
                /\ SubSeq(FwdNodes(l)', 1, Len(FwdNodes(l))) = FwdNodes(l)
                /\ list'[l].len = list[l].len + Len(t)
                /\ t = << >> =>
                     list' = list /\ node' = node /\ status' = status
                /\ Untouched(Other(l))
       /\ (~alive[l] /\ ret' = RetList /\ Sound) =>
            \A t \in Inputs :
              from_iter(l, t) =>
                /\ Quiet' /\ damaged' = 0
                /\ alive'[l]
                /\ ElemsOf(l)' = t
                /\ Contents(l)' = t
                /\ list'[l].len = Len(t)
                /\ Untouched(Other(l))]_vars

\* After an extend a list holds more elements than one input has, in the
\* order 1, 2, 1.
C31_Witness ==
  /\ ret = RetUnit
  /\ \E l \in Lists :
       /\ alive[l]
       /\ Len(ElemsOf(l)) > MaxInput
       /\ SubSeq(ElemsOf(l), 1, 3) = << 1, 2, 1 >>

----------------------------------------------------------------------------
(* front, back, front_mut, back_mut *)

\* Nothing but the element of node n is changed by the step.
OnlyElemOf(n) ==
  /\ list' = list /\ status' = status /\ alive' = alive
  /\ \A m \in Nodes :
       /\ node'[m].front = node[m].front /\ node'[m].back = node[m].back
       /\ m # n => node'[m].elem = node[m].elem

\* C32: front, back, front_mut and back_mut return no value exactly when the
\* list is empty and otherwise the element pop_front, or pop_back, would
\* return; front and back change nothing; a write through front_mut or
\* back_mut changes the element of that one node and nothing else (no link,
\* no len), and pop_front, or pop_back, then returns the written element.
C32_PeekEnds ==
  [][\A l \in Lists :
       (alive[l] /\ ReturnedOption /\ Sound) =>
         LET f == FwdNodes(l)
             n == Len(f)
             s == ElemsOf(l)
         IN /\ front(l) =>
                 /\ ret' = (IF n = 0 THEN RetNone ELSE RetSome(s[1]))
                 /\ ret' = PopFront(World, l).ret
                 /\ node' = node /\ OnlyElemOf(NULL) /\ Quiet'
            /\ back(l) =>
                 /\ ret' = (IF n = 0 THEN RetNone ELSE RetSome(s[n]))
                 /\ ret' = PopBack(World, l).ret
                 /\ node' = node /\ OnlyElemOf(NULL) /\ Quiet'
            /\ \A e \in Elems :
                 /\ front_mut(l, e) =>
                      /\ ret' = (IF n = 0 THEN RetNone ELSE RetSome(s[1]))
                      /\ ret' = PopFront(World, l).ret
                      /\ IF n = 0 THEN node' = node /\ OnlyElemOf(NULL)
                         ELSE /\ OnlyElemOf(f[1]) /\ node'[f[1]].elem = e
                              /\ PopFront(World, l)'.ret = RetSome(e)
                      /\ Quiet'
                 /\ back_mut(l, e) =>
                      /\ ret' = (IF n = 0 THEN RetNone ELSE RetSome(s[n]))
                      /\ ret' = PopBack(World, l).ret
                      /\ IF n = 0 THEN node' = node /\ OnlyElemOf(NULL)
                         ELSE /\ OnlyElemOf(f[n]) /\ node'[f[n]].elem = e
                              /\ PopBack(World, l)'.ret = RetSome(e)
                      /\ Quiet']_vars

\* A list that has never lost a node holds two elements 2 after a call
\* returned the element 1: a write through front_mut or back_mut replaced it.
C32_Witness ==
  /\ ret = RetSome(1)
  /\ alive["a"]
  /\ ElemsOf("a") = << 2, 2 >>
  /\ \A n \in Nodes : status[n] # "freed"

----------------------------------------------------------------------------
(* The example of test_cursor_mut_insert *)

\* splice_before of the list in slot I, move_next, and splice_after of a new
\* list [y]: the calls in the order the example is written, from world w.
AsWritten(w, I, y) ==
  SpliceAfter(FromIter(MoveNext(SpliceBefore(w)), I, << y >>))

\* move_next first, then the two splices: the order of the test.
MoveFirst(w, I, y) ==
  SpliceAfter(FromIter(SpliceBefore(MoveNext(w)), I, << y >>))

\* The example itself: list a = [1,2,3,4,5,6] on nodes 1..6 with a cursor at
\* the ghost, list b = [7] on node 7, and node 8 holding 8.
ExampleWorld ==
  [node |-> [n \in 1..8 |->
               [front |-> IF n \in {1, 7, 8} THEN NULL ELSE n - 1,
                back |-> IF n \in {6, 7, 8} THEN NULL ELSE n + 1,
                elem |-> n]],
   status |-> [n \in 1..8 |-> "live"],
   list |-> [l \in Lists |->
               IF l = "a" THEN [front |-> 1, back |-> 6, len |-> 6]
               ELSE [front |-> 7, back |-> 7, len |-> 1]],
   alive |-> [l \in Lists |-> TRUE],
   cursor |-> [live |-> TRUE, list |-> "a", cur |-> NULL, index |-> None],
   iter |-> NoIter, ub |-> "none", panicked |-> FALSE, ret |-> RetUnit]

\* The list [8] on node 8 is put into slot b.
GiveEight(w) ==
  [w EXCEPT !.alive["b"] = TRUE,
            !.list["b"] = [front |-> 8, back |-> 8, len |-> 1]]

ExampleAsWritten ==
  SpliceAfter(GiveEight(MoveNext(SpliceBefore(ExampleWorld))))

ExampleMoveFirst ==
  SpliceAfter(GiveEight(SpliceBefore(MoveNext(ExampleWorld))))

\* The cursor is at the ghost of a list that is not empty, the other list
\* holds one element, and there is a node left for one more list.
ExampleStart ==
  /\ ub = "none" /\ cursor.live /\ cursor.cur = NULL
  /\ alive[Other(cursor.list)] /\ CanAlloc
  /\ list[cursor.list].len >= 1
  /\ list[Other(cursor.list)].len = 1
  /\ Sound

\* C33 as stated: from [1,2,3,4,5,6] with the cursor at the ghost,
\* splice_before([7]) at the ghost, then move_next to index 0, then
\* splice_after([8]) leaves [7,1,8,2,3,4,5,6]; and so for every list s, [x]
\* and [y]: x, the first of s, y, the rest of s.
C33_AsWritten ==
  /\ IterCollect(ExampleAsWritten, "a") = << 7, 1, 8, 2, 3, 4, 5, 6 >>
  /\ ExampleStart =>
       LET L == cursor.list
           s == Contents(L)
           x == Contents(Other(L))
       IN \A y \in Elems :
            IterCollect(AsWritten(World, Other(L), y), L)
              = x \o << s[1], y >> \o Tail(s)

\* C33, amended: with move_next to index 0 called first, splice_before([7])
\* and then splice_after([8]) leave [7,1,8,2,3,4,5,6] with len 8 and the
\* cursor on 1 at index 1; in the order written (splice_before([7]) at the
\* ghost, which appends) the result is [1,8,2,3,4,5,6,7] with the cursor on 1
\* at index 0.  The same for every list s, [x] and [y].
C33_MoveFirst ==
  /\ IterCollect(ExampleMoveFirst, "a") = << 7, 1, 8, 2, 3, 4, 5, 6 >>
  /\ ExampleMoveFirst.list["a"].len = 8
  /\ ExampleMoveFirst.cursor.cur = 1
  /\ ExampleMoveFirst.cursor.index = Some(1)
  /\ IterCollect(ExampleAsWritten, "a") = << 1, 8, 2, 3, 4, 5, 6, 7 >>
  /\ ExampleAsWritten.cursor.index = Some(0)
  /\ ExampleStart =>
       LET L == cursor.list
           s == Contents(L)
           x == Contents(Other(L))
       IN \A y \in Elems :
            LET m == MoveFirst(World, Other(L), y)
                a == AsWritten(World, Other(L), y)
            IN /\ m.ub = "none" /\ ~m.panicked /\ SoundIn(m)
               /\ IterCollect(m, L) = x \o << s[1], y >> \o Tail(s)
               /\ m.list[L].len = Len(s) + 2
               /\ m.cursor.index = Some(1)
               /\ a.ub = "none" /\ ~a.panicked /\ SoundIn(a)
               /\ IterCollect(a, L) = << s[1], y >> \o Tail(s) \o x
               /\ a.cursor.index = Some(0)

\* The two splices have run with the cursor on the element 1 of [1]: the
\* list holds 2, 1, 2 and the cursor is on 1 at index 1.
C33_Witness ==
  /\ ret = RetSpliced
  /\ cursor.live /\ cursor.list = "a" /\ cursor.index = Some(1)
  /\ cursor.cur # NULL /\ node[cursor.cur].elem = 1
  /\ Contents("a") = << 2, 1, 2 >>
  /\ ~alive["b"]

----------------------------------------------------------------------------
(* Send and Sync *)

\* C35: the list and its iterators can be moved to another thread exactly
\* when the element type permits what the move exposes, and shared exactly
\* when the element type is Sync; the container removes no restriction.  So
\* two threads can reach the same elements by shared reference only if T is
\* Sync, a thread other than the one that built the list gets elements by
\* value or by &mut only if T is Send, and an Iter over elements that are
\* not Sync never leaves the thread of its list.
C35_SendSyncAsElement ==
  /\ \A t1, t2 \in Threads :
       t1 # t2 /\ ReadsElems(t1) /\ ReadsElems(t2) => elem_type.sync
  /\ \A t \in Threads : t # Main /\ OwnsElems(t) => elem_type.send
  /\ owner["Iter"] # NoThread /\ ~elem_type.sync
       => owner["Iter"] = owner["LinkedList"]

----------------------------------------------------------------------------
(* The frame of split and splice *)

\* The nodes whose front or back link the step changes.
LinksChanged ==
  {n \in Nodes : node'[n].front # node[n].front \/ node'[n].back # node[n].back}

\* The node before and the node after the cursor (at the ghost: the back and
\* the front of the bound list), and the two ends of the list to splice in.
NodeBefore ==
  IF cursor.cur = NULL THEN list[cursor.list].back ELSE node[cursor.cur].front

NodeAfter ==
  IF cursor.cur = NULL THEN list[cursor.list].front ELSE node[cursor.cur].back

InputEnds == {list[Other(cursor.list)].front, list[Other(cursor.list)].back}

\* The step changes links of nodes of B only, allocates and frees nothing and
\* leaves every element as it is.
LinksFrame(B) ==
  /\ LinksChanged \subseteq B \ {NULL}
  /\ Cardinality(LinksChanged) <= 4
  /\ \A n \in Nodes : node'[n].elem = node[n].elem
  /\ status' = status

----------------------------------------------------------------------------
(* Subtractions of usize values *)

\* a >= b for usize values kept as signed representatives: a negative
\* representative stands for a value near 2^64, above every value that a
\* non-negative representative stands for.
UsizeGe(a, b) == IF (a < 0) = (b < 0) THEN a >= b ELSE a < 0

\* C37: no subtraction of usize values goes below zero: `self.len -= 1` of
\* pop_front and pop_back runs only with len >= 1, on every list a caller
\* can hold, the lists returned by the splits included; `index -= 1` of
\* move_prev only with index >= 1; `self.list.len - 1` of move_prev at the
\* ghost only with len >= 1; and in split_before and split_after the current
\* index (plus one for split_after) is never above old_len.
C37_NoUnderflow ==
  [][/\ \A l \in Lists :
          /\ (list[l].front # NULL /\ pop_front(l)) => UsizeGe(list[l].len, 1)
          /\ (list[l].back # NULL /\ pop_back(l)) => UsizeGe(list[l].len, 1)
     /\ (cursor.live /\ HasPrev /\ cursor.index # None /\ move_prev)
          => UsizeGe(cursor.index[1], 1)
     /\ (cursor.live /\ cursor.cur = NULL /\ move_prev /\ cursor'.cur # NULL)
          => UsizeGe(list[cursor.list].len, 1)
     /\ (cursor.live /\ cursor.cur # NULL /\ cursor.index # None
           /\ split_before)
          => UsizeGe(list[cursor.list].len, cursor.index[1])
     /\ (cursor.live /\ cursor.cur # NULL /\ cursor.index # None
           /\ split_after)
          => UsizeGe(list[cursor.list].len, cursor.index[1] + 1)]_vars

----------------------------------------------------------------------------
(* Walking with the cursor *)

\* The cursor after each of k calls of move_next, and of move_prev.
RECURSIVE NextWalk(_, _)
NextWalk(w, k) ==
  IF k = 0 THEN << >>
  ELSE LET w1 == MoveNext(w) IN << w1.cursor >> \o NextWalk(w1, k - 1)

RECURSIVE PrevWalk(_, _)
PrevWalk(w, k) ==
  IF k = 0 THEN << >>
  ELSE LET w1 == MovePrev(w) IN << w1.cursor >> \o PrevWalk(w1, k - 1)

\* C38: from every position of a cursor, move_next then move_prev, and
\* move_prev then move_next, bring the cursor back to the same node and
\* index; and from the ghost of a list of n nodes, n + 1 calls of move_next
\* visit the nodes front to back with the indices 0 .. n - 1 and end at the
\* ghost, n + 1 calls of move_prev visit them back to front with the indices
\* n - 1 .. 0 and end at the ghost.
C38_MovesRoundTrip ==
  (cursor.live /\ ub = "none") =>
    LET L == cursor.list
        n == list[L].len
        f == FwdNodes(L)
        fw == NextWalk(World, n + 1)
        bw == PrevWalk(World, n + 1)
    IN /\ MovePrev(MoveNext(World)) = World
       /\ MoveNext(MovePrev(World)) = World
       /\ cursor.cur = NULL =>
            /\ Len(f) = n
            /\ \A i \in 1..n :
                 /\ fw[i].cur = f[i] /\ fw[i].index = Some(i - 1)
                 /\ bw[i].cur = f[n + 1 - i] /\ bw[i].index = Some(n - i)
            /\ fw[n + 1].cur = NULL /\ fw[n + 1].index = None
            /\ bw[n + 1].cur = NULL /\ bw[n + 1].index = None

\* A move has brought the cursor back to the ghost of a list of three nodes
\* (no other list exists and the list is borrowed, so the last call was a
\* move).
C38_Witness ==
  /\ ret = RetUnit
  /\ cursor.live /\ cursor.cur = NULL /\ cursor.index = None
  /\ list[cursor.list].len = 3
  /\ ~alive[Other(cursor.list)]

----------------------------------------------------------------------------
(* The node under the cursor *)

\* C39: whatever moves, splits and splices were called, a cursor that is on
\* a node is on a live node that is reachable from the front of the list it
\* is bound to, and not on a node that belongs to the other list (the list a
\* split returned): not its front, not its back, not a node of its chain.
C39_CursorOnOwnNode ==
  (cursor.live /\ cursor.cur # NULL) =>
    LET L == cursor.list
        O == Other(L)
    IN /\ status[cursor.cur] = "live"
       /\ cursor.cur \in Range(FwdNodes(L))
       /\ alive[O] =>
            /\ cursor.cur \notin {list[O].front, list[O].back}
            /\ cursor.cur \notin Reach(O)

----------------------------------------------------------------------------
(* The queue of fifth.rs *)

RECURSIVE FifthWalk(_, _, _)
FifthWalk(q, n, k) ==
  IF n = NULL \/ k = 0 \/ q.status[n] # "live" THEN << >>
  ELSE << n >> \o FifthWalk(q, q.node[n].next, k - 1)

\* The nodes from head along next, and their elements.
FifthNodes == FifthWalk(Fifth, head, MaxNodes + 1)
FifthElems == [i \in 1..Len(FifthNodes) |-> fifth_node[FifthNodes[i]].elem]

\* head and tail are null together; otherwise they are the first and the
\* last node of one chain of live nodes that ends in a null next.
FifthOk ==
  /\ head = NULL <=> tail = NULL
  /\ head # NULL =>
       /\ Len(FifthNodes) >= 1
       /\ FifthNodes[1] = head
       /\ FifthNodes[Len(FifthNodes)] = tail
       /\ fifth_node[tail].next = NULL
  /\ \A n \in Nodes :
       fifth_status[n] = "live" => \E i \in 1..Len(FifthNodes) : FifthNodes[i] = n

\* C40: the queue is first-in-first-out: push puts the element behind all
\* others, pop returns the oldest element and removes it, pop on the empty
\* queue returns None and changes nothing; head is null iff tail is null, no
\* call runs into freed memory, and a push on an empty queue (a drained one
\* included) makes the new node both head and tail.
C40_Fifo ==
  [][/\ ub' = "none"
     /\ FifthOk'
     /\ \A e \in Elems : push(e) =>
          /\ FifthElems' = Append(FifthElems, e)
          /\ head = NULL => head' = tail' /\ head' # NULL
          /\ \A n \in Nodes : fifth_status[n] = "freed" => tail' # n
     /\ pop =>
          IF FifthElems = << >>
          THEN ret' = RetNone /\ UNCHANGED fifthVars
          ELSE /\ ret' = RetSome(Head(FifthElems))
               /\ FifthElems' = Tail(FifthElems)
               /\ fifth_status'[head] = "freed"
               /\ tail' # head]_vars

\* A push after the queue was drained: the node pushed first is freed and
\* the new node is head and tail.
C40_Witness ==
  /\ ret = RetUnit
  /\ fifth_status[1] = "freed"
  /\ head = 2
  /\ tail = 2
  /\ ub = "none"

====
